---- MODULE Spec2Model ----
(***************************************************************************)
(* PyLine: a terminal line editor whose editing operations are wrapped by  *)
(* a hook dispatch engine.  The module models                              *)
(*   - the hook engine (hook_manager.py, hook_utils.py, utils.py),         *)
(*   - the editing core (buffer_manager.py, edit_commands.py,              *)
(*     undo_manager.py, navigation_manager.py, selection_manager.py),      *)
(*   - the coordinator (text_buffer.py).                                   *)
(* Line indices are 0-based as in the source; At/ListInsert/ListDelete     *)
(* translate them to the 1-based sequences of TLA+.                        *)
(***************************************************************************)
EXTENDS Integers, Sequences, FiniteSets, TLC

VARIABLES
    lines,              \* BufferManager.lines
    dirty,              \* BufferManager.dirty
    current_line,       \* NavigationManager.current_line
    display_start,      \* NavigationManager.display_start
    undo_stack,         \* UndoManager.undo_stack (oldest first)
    redo_stack,         \* UndoManager.redo_stack (oldest first)
    selection_start,    \* SelectionManager.selection_start (None = NoLine)
    selection_end,      \* SelectionManager.selection_end   (None = NoLine)
    in_selection_mode,  \* SelectionManager.in_selection_mode
    pc,                 \* edit_interactive: "display" at the top of the loop,
                        \* "command" when it awaits a key
    events,             \* hook events fired by the last operation, in order
    last,               \* the last operation: its name, inputs and result
    seq_base,           \* buffer content when the editing sequence began
    seq_ops,            \* editing operations applied since then
    seq_undos,          \* undo calls made after the editing operations
    hook_files,         \* file names in the hook directory being dispatched
    disabled_hooks,     \* ids of the hooks is_hook_enabled reports disabled
    discovered,         \* result of the last _get_sorted_hooks
    pending,            \* hooks the running dispatch has not executed yet
    hook_log,           \* hooks executed by the dispatch, with their results
    dispatch,           \* the dispatch: site, mode, position, result
    config,             \* ConfigManager: the "hooks" section of config.json
    filename,           \* BufferManager.filename
    paste_buffer        \* PasteBuffer: buffer, original_indents, common_prefix

editor_vars == <<lines, dirty, current_line, display_start, undo_stack,
                 redo_stack, selection_start, selection_end,
                 in_selection_mode, pc, events, last, seq_base, seq_ops,
                 seq_undos>>
hook_vars == <<hook_files, disabled_hooks, discovered, pending, hook_log,
               dispatch>>
store_vars == <<config, filename, paste_buffer>>
vars == <<lines, dirty, current_line, display_start, undo_stack, redo_stack,
          selection_start, selection_end, in_selection_mode, pc, events,
          last, seq_base, seq_ops, seq_undos, hook_files, disabled_hooks,
          discovered, pending, hook_log, dispatch, config, filename,
          paste_buffer>>

(***************************************************************************)
(* Bounds of the model.                                                    *)
(***************************************************************************)
MaxLines == 3           \* longest buffer explored
MaxHistory == 1         \* UndoManager(max_history), 120 by default
DisplayLines == 2       \* NavigationManager(display_lines), 52 by default
MaxFiles == 4           \* most files in one hook directory

Texts == {"", "a"}      \* line texts typed, loaded or pasted
NoLine == -1            \* Python None for an optional line number

(***************************************************************************)
(* Python list operations on 0-based indices.                              *)
(***************************************************************************)
Max(a, b) == IF a >= b THEN a ELSE b
Min(a, b) == IF a <= b THEN a ELSE b

At(s, i) == s[i + 1]

\* list.insert(i, x): an index past the end appends, a negative one counts
\* from the end and is clamped at the front
ListInsert(s, i, x) ==
    LET k == IF i < 0 THEN Max(0, Len(s) + i) ELSE Min(i, Len(s))
    IN  SubSeq(s, 1, k) \o <<x>> \o SubSeq(s, k + 1, Len(s))

\* del s[i] / s.pop(i) for 0 <= i < len(s)
ListDelete(s, i) == SubSeq(s, 1, i) \o SubSeq(s, i + 2, Len(s))

\* s[i] = x for 0 <= i < len(s)
ListSet(s, i, x) == [s EXCEPT ![i + 1] = x]

\* reversed(s)
Reverse(s) == [i \in 1..Len(s) |-> s[Len(s) + 1 - i]]

\* BufferManager.get_line: "" when the index is out of range
GetLine(ls, i) == IF 0 <= i /\ i < Len(ls) THEN At(ls, i) ELSE ""

(***************************************************************************)
(* EditCommand variants (edit_commands.py).  One record shape for all:     *)
(* the fields a variant does not use stay at their defaults.               *)
(***************************************************************************)
Cmd(type, line_num, old_text, text, plines, changes, entries) ==
    [type |-> type, line_num |-> line_num, old_text |-> old_text,
     text |-> text, lines |-> plines, changes |-> changes,
     entries |-> entries]

LineEditCommand(line_num, old_text, new_text) ==
    Cmd("LineEdit", line_num, old_text, new_text, <<>>, <<>>, <<>>)
InsertLineCommand(line_num, text) ==
    Cmd("InsertLine", line_num, "", text, <<>>, <<>>, <<>>)
DeleteLineCommand(line_num, text) ==
    Cmd("DeleteLine", line_num, "", text, <<>>, <<>>, <<>>)
MultiPasteInsertCommand(at_line, plines) ==
    Cmd("MultiPasteInsert", at_line, "", "", plines, <<>>, <<>>)
\* changes: <<line_num, old_text, new_text>>
MultiPasteOverwriteCommand(changes) ==
    Cmd("MultiPasteOverwrite", 0, "", "", <<>>, changes, <<>>)
\* entries: <<line_num, text>>
MultiDeleteCommand(entries) ==
    Cmd("MultiDelete", 0, "", "", <<>>, <<>>, entries)

\* for line in reversed(self.lines): lines.insert(at_line, line)
RECURSIVE InsertAll(_, _, _)
InsertAll(ls, at_line, rev) ==
    IF rev = <<>> THEN ls
    ELSE InsertAll(ListInsert(ls, at_line, Head(rev)), at_line, Tail(rev))

\* for _ in range(n): if at_line < len(lines): del lines[at_line]
RECURSIVE DeleteN(_, _, _)
DeleteN(ls, at_line, n) ==
    IF n = 0 THEN ls
    ELSE DeleteN(IF at_line < Len(ls) THEN ListDelete(ls, at_line) ELSE ls,
                 at_line, n - 1)

\* for line_num, old, new in changes: if line_num < len: lines[line_num] = ..
RECURSIVE ApplyChanges(_, _, _)
ApplyChanges(ls, changes, field) ==
    IF changes = <<>> THEN ls
    ELSE LET c == Head(changes)
         IN  ApplyChanges(IF c[1] < Len(ls) THEN ListSet(ls, c[1], c[field])
                          ELSE ls,
                          Tail(changes), field)

\* the entries left in the order they were recorded
SortEntriesUnsorted(es) == es

\* sorted(entries, key=line_num): a stable insertion sort on the line number
\* (sorted(.., reverse=True) is its reverse: the line numbers are distinct)
RECURSIVE SortEntries(_)
SortEntries(es) ==
    IF es = <<>> THEN <<>>
    ELSE LET rest == SortEntries(SubSeq(es, 1, Len(es) - 1))
             e == es[Len(es)]
             k == Cardinality({i \in 1..Len(rest) : rest[i][1] <= e[1]})
         IN  SubSeq(rest, 1, k) \o <<e>> \o SubSeq(rest, k + 1, Len(rest))

\* for line_num, _ in sorted(.., reverse=True): if line_num < len: del ..
RECURSIVE DeleteEntries(_, _)
DeleteEntries(ls, desc) ==
    IF desc = <<>> THEN ls
    ELSE LET n == Head(desc)[1]
         IN  DeleteEntries(IF n < Len(ls) THEN ListDelete(ls, n) ELSE ls,
                           Tail(desc))

\* for line_num, text in sorted(..): lines.insert(line_num, text)
RECURSIVE InsertEntries(_, _)
InsertEntries(ls, asc) ==
    IF asc = <<>> THEN ls
    ELSE InsertEntries(ListInsert(ls, Head(asc)[1], Head(asc)[2]), Tail(asc))

\* EditCommand.execute(buffer_manager)
CmdExecute(c, ls) ==
    CASE c.type = "LineEdit" ->
            IF c.line_num < Len(ls) THEN ListSet(ls, c.line_num, c.text)
            ELSE ls
      [] c.type = "InsertLine" -> ListInsert(ls, c.line_num, c.text)
      [] c.type = "DeleteLine" ->
            IF c.line_num < Len(ls) THEN ListDelete(ls, c.line_num) ELSE ls
      [] c.type = "MultiPasteInsert" ->
            InsertAll(ls, c.line_num, Reverse(c.lines))
      [] c.type = "MultiPasteOverwrite" -> ApplyChanges(ls, c.changes, 3)
      [] c.type = "MultiDelete" ->
            DeleteEntries(ls, Reverse(SortEntries(c.entries)))

\* EditCommand.undo(buffer_manager)
CmdUndo(c, ls) ==
    CASE c.type = "LineEdit" ->
            IF c.line_num < Len(ls) THEN ListSet(ls, c.line_num, c.old_text)
            ELSE ls
      [] c.type = "InsertLine" ->
            IF c.line_num < Len(ls) THEN ListDelete(ls, c.line_num) ELSE ls
      [] c.type = "DeleteLine" -> ListInsert(ls, c.line_num, c.text)
      [] c.type = "MultiPasteInsert" ->
            DeleteN(ls, c.line_num, Len(c.lines))
      [] c.type = "MultiPasteOverwrite" -> ApplyChanges(ls, c.changes, 2)
      [] c.type = "MultiDelete" -> InsertEntries(ls, SortEntries(c.entries))

(***************************************************************************)
(* UndoManager (undo_manager.py): two deques with maxlen = max_history.    *)
(***************************************************************************)
\* a deque that never drops an entry
DequeAppendUnbounded(dq, c, maxlen) == Append(dq, c)

\* deque(maxlen).append: a full deque drops its oldest entry
DequeAppendMax(dq, c, maxlen) ==
    IF Len(dq) >= maxlen THEN Tail(dq) \o <<c>> ELSE Append(dq, c)

\* the deques of the UndoManager the editing session is explored with
DequeAppend(dq, c) == DequeAppendMax(dq, c, MaxHistory)

\* UndoManager.push_command
PushCommand(us, c) == [undo |-> DequeAppend(us, c), redo |-> <<>>]

(***************************************************************************)
(* NavigationManager (navigation_manager.py) on a record [cl, ds].         *)
(***************************************************************************)
Nav(cl, ds) == [cl |-> cl, ds |-> ds]

\* _adjust_viewport without the clamp of current_line to the buffer
AdjustViewportUnclamped(n, line_count) ==
    IF line_count = 0 THEN Nav(0, 0)
    ELSE LET cl == n.cl
             d1 == IF cl < n.ds THEN cl
                   ELSE IF cl >= n.ds + DisplayLines
                        THEN cl - DisplayLines + 1
                        ELSE n.ds
             max_display_start == Max(0, line_count - DisplayLines)
             d2 == IF d1 > max_display_start THEN max_display_start ELSE d1
         IN  Nav(cl, Max(0, d2))

\* NavigationManager._adjust_viewport
AdjustViewport(n, line_count) ==
    IF line_count = 0 THEN Nav(0, 0)
    ELSE LET cl == Max(0, Min(n.cl, line_count - 1))
             d1 == IF cl < n.ds THEN cl
                   ELSE IF cl >= n.ds + DisplayLines
                        THEN cl - DisplayLines + 1
                        ELSE n.ds
             max_display_start == Max(0, line_count - DisplayLines)
             d2 == IF d1 > max_display_start THEN max_display_start ELSE d1
         IN  Nav(cl, Max(0, d2))

\* NavigationManager.set_current_line
SetCurrentLine(n, line_number, line_count) ==
    IF line_count = 0 THEN Nav(0, 0)
    ELSE AdjustViewport(Nav(Max(0, Min(line_number, line_count - 1)), n.ds),
                        line_count)

\* NavigationManager.ensure_line_visible
EnsureLineVisible(n, line_number, line_count) ==
    LET d == IF line_number < n.ds THEN line_number
             ELSE IF line_number >= n.ds + DisplayLines
                  THEN line_number - DisplayLines + 1
                  ELSE n.ds
    IN  AdjustViewport(Nav(n.cl, d), line_count)

\* TextBuffer.display: the navigation fix-up made before rendering
Display(n, line_count) ==
    IF line_count = 0 THEN Nav(0, 0)
    ELSE IF n.cl >= line_count
         THEN SetCurrentLine(n, line_count - 1, line_count)
         ELSE n

(***************************************************************************)
(* Python values a hook can return: None, a string, or a map with the keys *)
(* the editor looks at.  ho: handled_output (-1 absent), cancel: the key   *)
(* is present, text: the rewrite (NoText absent), success: the flag of a   *)
(* subprocess wrapper (-1 absent, 0 false, 1 true).                        *)
(***************************************************************************)
NoText == "<absent>"

PyVal(t, s, ho, cancel, text, success) ==
    [t |-> t, s |-> s, ho |-> ho, cancel |-> cancel, text |-> text,
     success |-> success]
PyNone == PyVal("none", "", -1, FALSE, NoText, -1)
Str(s) == PyVal("str", s, -1, FALSE, NoText, -1)
Dict(ho, cancel, text, success) == PyVal("dict", "", ho, cancel, text, success)

\* what an in-process hook's main(context) may return
PyHookValues ==
    {PyNone, Str(""), Str(" "), Str("ok"), Str("cancel")}
    \cup {Dict(ho, c, tx, -1) : ho \in {-1, 0, 1}, c \in BOOLEAN,
                                tx \in {NoText, "a"}}

\* bool(v)
Truthy(v) ==
    CASE v.t = "none" -> FALSE
      [] v.t = "str" -> v.s # ""
      [] v.t = "dict" ->
            v.ho # -1 \/ v.cancel \/ v.text # NoText \/ v.success # -1

\* s.strip() != "" for the strings of PyHookValues
StripNonEmpty(s) == s \notin {"", " "}

\* `key in v`: key membership for a map, substring test for a string
HasKey(v, key) ==
    CASE v.t = "dict" ->
            (key = "cancel" /\ v.cancel) \/ (key = "text" /\ v.text # NoText)
            \/ (key = "handled_output" /\ v.ho # -1)
            \/ (key = "success" /\ v.success # -1)
      [] v.t = "str" -> v.s = key
      [] OTHER -> FALSE

(***************************************************************************)
(* HookManager.execute_hooks (hook_manager.py): the test applied to the    *)
(* result of each hook.                                                    *)
(***************************************************************************)
\* the test of execute_hooks with a string that has no content passed over
HandleResultContentOnly(result) ==
    IF result.t # "none"
    THEN IF result.t = "dict" /\ result.ho = 1 THEN "return"
         ELSE IF result.t = "str" /\ StripNonEmpty(result.s) THEN "return"
         ELSE IF result.t = "str" THEN "continue"
         ELSE IF result.t = "dict" /\ result.ho = 0 THEN "continue"
         ELSE "return"
    ELSE "continue"

HandleResult(result) ==
    IF result.t # "none"
    THEN IF result.t = "dict" /\ result.ho = 1 THEN "return"
         ELSE IF result.t = "str" /\ StripNonEmpty(result.s) THEN "return"
         ELSE IF result.t = "dict" /\ result.ho = 0 THEN "continue"
         ELSE "return"
    ELSE "continue"

\* LanguageHookExecutor.execute_script: the map it returns for a subprocess
\* that exited 0, exited nonzero, timed out, or could not be started because
\* the interpreter is missing; "success" is its only key the editor reads
ScriptWrapper(outcome) ==
    IF outcome = "exit0" THEN Dict(-1, FALSE, NoText, 1)
    ELSE Dict(-1, FALSE, NoText, 0)

\* the values execute_hooks can hand to its caller
FirstResults ==
    {PyNone}
    \cup {v \in PyHookValues : HandleResult(v) = "return"}
    \cup {ScriptWrapper(o) : o \in {"exit0", "nonzero"}}

(***************************************************************************)
(* BufferManager (buffer_manager.py).  Each operation takes the buffer and *)
(* the result of its pre-hook dispatch and yields the new buffer, the      *)
(* returned value and the hook events fired.                               *)
(***************************************************************************)
BufResult(ls, d, ret, evs) ==
    [lines |-> ls, dirty |-> d, ret |-> ret, events |-> evs]

\* insert_line with the cancel test moved after the insertion
BufInsertLineCancelLate(ls, d, index, text, pre_insert_result) ==
    LET text_to_insert ==
            IF Truthy(pre_insert_result) /\ HasKey(pre_insert_result, "text")
            THEN pre_insert_result.text ELSE text
        inserted == ListInsert(ls, index, text_to_insert)
    IN  IF Truthy(pre_insert_result) /\ HasKey(pre_insert_result, "cancel")
        THEN BufResult(inserted, TRUE, Str(text_to_insert), <<"pre_insert">>)
        ELSE BufResult(inserted, TRUE, Str(text_to_insert),
                       <<"pre_insert", "post_insert">>)

\* insert_line that inserts the caller's text and returns the rewrite
BufInsertLineOriginalText(ls, d, index, text, pre_insert_result) ==
    LET text_to_insert ==
            IF Truthy(pre_insert_result) /\ HasKey(pre_insert_result, "text")
            THEN pre_insert_result.text ELSE text
    IN  IF Truthy(pre_insert_result) /\ HasKey(pre_insert_result, "cancel")
        THEN BufResult(ls, d, Str(text_to_insert), <<"pre_insert">>)
        ELSE BufResult(ListInsert(ls, index, text), TRUE,
                       Str(text_to_insert), <<"pre_insert", "post_insert">>)

\* BufferManager.insert_line
BufInsertLine(ls, d, index, text, pre_insert_result) ==
    LET text_to_insert ==
            IF Truthy(pre_insert_result) /\ HasKey(pre_insert_result, "text")
            THEN pre_insert_result.text ELSE text
    IN  IF Truthy(pre_insert_result) /\ HasKey(pre_insert_result, "cancel")
        THEN BufResult(ls, d, Str(text_to_insert), <<"pre_insert">>)
        ELSE BufResult(ListInsert(ls, index, text_to_insert), TRUE,
                       Str(text_to_insert), <<"pre_insert", "post_insert">>)

\* delete_line with the cancel test moved after the deletion
BufDeleteLineCancelLate(ls, d, index, pre_delete_result) ==
    IF ~(0 <= index /\ index < Len(ls))
    THEN BufResult(ls, d, Str(""), <<>>)
    ELSE IF Truthy(pre_delete_result) /\ HasKey(pre_delete_result, "cancel")
         THEN BufResult(ListDelete(ls, index), TRUE, Str(""), <<"pre_delete">>)
         ELSE BufResult(ListDelete(ls, index), TRUE, Str(At(ls, index)),
                        <<"pre_delete", "post_delete">>)

\* BufferManager.delete_line
BufDeleteLine(ls, d, index, pre_delete_result) ==
    IF ~(0 <= index /\ index < Len(ls))
    THEN BufResult(ls, d, Str(""), <<>>)
    ELSE IF Truthy(pre_delete_result) /\ HasKey(pre_delete_result, "cancel")
         THEN BufResult(ls, d, Str(""), <<"pre_delete">>)
         ELSE BufResult(ListDelete(ls, index), TRUE, Str(At(ls, index)),
                        <<"pre_delete", "post_delete">>)

\* set_line that only rejects an index list indexing would reject: a
\* negative index counts from the end of the buffer
BufSetLineUnguarded(ls, d, index, text, pre_edit_result) ==
    IF index >= Len(ls) \/ index < 0 - Len(ls)
    THEN BufResult(ls, d, Str(""), <<>>)
    ELSE LET i == IF index < 0 THEN Len(ls) + index ELSE index
         IN  IF Truthy(pre_edit_result) /\ HasKey(pre_edit_result, "cancel")
             THEN BufResult(ls, d, Str(At(ls, i)), <<"pre_edit">>)
             ELSE BufResult(ListSet(ls, i, text), TRUE, Str(text),
                            <<"pre_edit", "post_edit">>)

\* BufferManager.set_line (a pre_edit hook rewrites through "new_text", a
\* key no value of PyHookValues carries)
BufSetLine(ls, d, index, text, pre_edit_result) ==
    IF ~(0 <= index /\ index < Len(ls))
    THEN BufResult(ls, d, Str(""), <<>>)
    ELSE IF Truthy(pre_edit_result) /\ HasKey(pre_edit_result, "cancel")
         THEN BufResult(ls, d, Str(At(ls, index)), <<"pre_edit">>)
         ELSE BufResult(ListSet(ls, index, text), TRUE, Str(text),
                        <<"pre_edit", "post_edit">>)

(***************************************************************************)
(* NavigationManager operations.  pre_navigation is dispatched through     *)
(* HookUtils.execute_session_handlers, that is execute_all_hooks: the      *)
(* pre-hook result is the list of the non-null results of all hooks.       *)
(***************************************************************************)
NavResult(n, ret, evs) == [nav |-> n, ret |-> ret, events |-> evs]

\* `pre_nav_result and "cancel" in pre_nav_result` on a list: the list is
\* non-empty and one of its elements equals the string "cancel"
NavCancelled(results) ==
    results # <<>> /\ \E i \in 1..Len(results) : results[i] = Str("cancel")

NavDone(n) == NavResult(n, TRUE, <<"pre_navigation", "post_navigation">>)

\* NavigationManager.navigate
NavNavigate(n, direction, line_count, results) ==
    IF line_count = 0 THEN NavResult(n, FALSE, <<>>)
    ELSE IF NavCancelled(results)
         THEN NavResult(n, FALSE, <<"pre_navigation">>)
         ELSE LET cl == IF direction = "up" /\ n.cl > 0 THEN n.cl - 1
                        ELSE IF direction = "down" /\ n.cl < line_count - 1
                             THEN n.cl + 1
                             ELSE n.cl
              IN  NavDone(AdjustViewport(Nav(cl, n.ds), line_count))

\* NavigationManager.jump_to_line
NavJumpToLine(n, line_number, line_count, results) ==
    IF line_count = 0 THEN NavResult(n, FALSE, <<>>)
    ELSE IF NavCancelled(results)
         THEN NavResult(n, FALSE, <<"pre_navigation">>)
         ELSE NavDone(AdjustViewport(
                        Nav(Max(0, Min(line_number, line_count - 1)), n.ds),
                        line_count))

\* NavigationManager.jump_to_beginning
NavJumpToBeginning(n, line_count, results) ==
    IF line_count = 0 THEN NavResult(n, FALSE, <<>>)
    ELSE IF NavCancelled(results)
         THEN NavResult(n, FALSE, <<"pre_navigation">>)
         ELSE NavDone(Nav(0, 0))

\* NavigationManager.jump_to_end
NavJumpToEnd(n, line_count, results) ==
    IF line_count = 0 THEN NavResult(n, FALSE, <<>>)
    ELSE IF NavCancelled(results)
         THEN NavResult(n, FALSE, <<"pre_navigation">>)
         ELSE NavDone(IF line_count > 0
                      THEN Nav(line_count - 1,
                               Max(0, line_count - DisplayLines))
                      ELSE n)

\* NavigationManager.page_up
NavPageUp(n, line_count, results) ==
    IF line_count = 0 THEN NavResult(n, FALSE, <<>>)
    ELSE IF NavCancelled(results)
         THEN NavResult(n, FALSE, <<"pre_navigation">>)
         ELSE NavDone(AdjustViewport(
                        Nav(Max(0, n.cl - DisplayLines),
                            Max(0, n.ds - DisplayLines)),
                        line_count))

\* NavigationManager.page_down
NavPageDown(n, line_count, results) ==
    IF line_count = 0 THEN NavResult(n, FALSE, <<>>)
    ELSE IF NavCancelled(results)
         THEN NavResult(n, FALSE, <<"pre_navigation">>)
         ELSE LET new_start == Min(line_count - DisplayLines,
                                   n.ds + DisplayLines)
              IN  NavDone(AdjustViewport(
                            Nav(Min(line_count - 1, n.cl + DisplayLines),
                                Max(0, new_start)),
                            line_count))

NavOps == {"navigate_up", "navigate_down", "jump_to_line",
           "jump_to_beginning", "jump_to_end", "page_up", "page_down"}

\* the navigation call `op` (jump_to_line with target line_number)
NavCall(op, n, line_number, line_count, results) ==
    CASE op = "navigate_up" -> NavNavigate(n, "up", line_count, results)
      [] op = "navigate_down" -> NavNavigate(n, "down", line_count, results)
      [] op = "jump_to_line" ->
            NavJumpToLine(n, line_number, line_count, results)
      [] op = "jump_to_beginning" -> NavJumpToBeginning(n, line_count, results)
      [] op = "jump_to_end" -> NavJumpToEnd(n, line_count, results)
      [] op = "page_up" -> NavPageUp(n, line_count, results)
      [] op = "page_down" -> NavPageDown(n, line_count, results)

\* results execute_all_hooks hands to a pre_navigation caller
NavHookResults ==
    {<<>>, <<Dict(-1, TRUE, NoText, -1)>>, <<Str("cancel")>>,
     <<Str("ok"), Str("cancel")>>, <<Dict(1, FALSE, NoText, -1), Str("ok")>>}

(***************************************************************************)
(* The coordinator (text_buffer.py).  edit_interactive alternates between  *)
(* the display() at the top of its loop (pc = "display") and the handler   *)
(* of the key it read (pc = "command"); `last` and `events` describe the   *)
(* command handled in the current turn of the loop.                        *)
(***************************************************************************)
\* pre-hook results the coordinator's commands are explored with: no hook
\* result, cancel, rewrite
PreResults ==
    {PyNone, Dict(-1, TRUE, NoText, -1), Dict(-1, FALSE, "a", -1)}

\* PasteBuffer.buffer after load_from_clipboard: one line, or several
SingleClips == {<<t>> : t \in Texts}
MultiClips == {<<"a", "">>}

\* the buffers a session starts with: a new buffer, or a loaded file
InitialBuffers == {<<"">>, <<"a", "">>}

\* all buffers of at most n lines
BuffersUpTo(n) == UNION {[1..k -> Texts] : k \in 0..n}

\* str(True) / str(False)
PyBool(b) == IF b THEN "True" ELSE "False"

Last(op, pre, ret) == [op |-> op, pre |-> pre, ret |-> ret]
Idle == Last("idle", PyNone, "None")

CurNav == Nav(current_line, display_start)

\* the navigation state a handler leaves
SetNav(n) == current_line' = n.cl /\ display_start' = n.ds

\* one key read and handled: the loop returns to its top
Turn ==
    pc = "command" /\ pc' = "display" /\ UNCHANGED hook_vars
    /\ UNCHANGED store_vars

\* SelectionManager.has_selection
HasSelection == selection_start # NoLine /\ selection_end # NoLine

\* bookkeeping of the editing sequence: an editing command counts as an
\* operation when it changed the buffer or recorded a command
TrackOp ==
    IF seq_ops < 0 \/ (lines' = lines /\ undo_stack' = undo_stack)
    THEN UNCHANGED <<seq_base, seq_ops, seq_undos>>
    ELSE IF seq_undos = 0 /\ seq_ops < MaxHistory
         THEN seq_ops' = seq_ops + 1 /\ UNCHANGED <<seq_base, seq_undos>>
         ELSE seq_ops' = -1 /\ seq_base' = <<>> /\ seq_undos' = 0
TrackUndo ==
    IF seq_ops < 0 THEN UNCHANGED <<seq_base, seq_ops, seq_undos>>
    ELSE IF seq_undos < seq_ops
         THEN seq_undos' = seq_undos + 1 /\ UNCHANGED <<seq_base, seq_ops>>
         ELSE seq_ops' = -1 /\ seq_base' = <<>> /\ seq_undos' = 0
TrackRedo ==
    IF seq_ops < 0 THEN UNCHANGED <<seq_base, seq_ops, seq_undos>>
    ELSE seq_ops' = -1 /\ seq_base' = <<>> /\ seq_undos' = 0
TrackNone == UNCHANGED <<seq_base, seq_ops, seq_undos>>

\* navigate / page_up / page_down / jump_to_beginning / jump_to_end, and
\* jump_to_line with a target the prompt accepted
Navigate(op, line_number, results) ==
    /\ Turn
    /\ LET r == NavCall(op, CurNav, line_number, Len(lines), results)
       IN  /\ UNCHANGED lines
           /\ SetNav(r.nav)
           /\ events' = r.events
           /\ last' = Last(op, PyNone, PyBool(r.ret))
    /\ UNCHANGED <<dirty, undo_stack, redo_stack, selection_start,
                   selection_end, in_selection_mode>>
    /\ TrackNone

\* results of the pre_navigation dispatch the coordinator is explored with
CoordNavResults == {<<>>, <<Str("cancel")>>}

\* TextBuffer.jump_to_line: refuses on an empty buffer before any hook
\* runs; otherwise the target is in 0..total_lines-1
JumpTargets == IF Len(lines) = 0 THEN {} ELSE 0..(Len(lines) - 1)

\* TextBuffer.undo
Undo ==
    /\ Turn
    /\ IF undo_stack # <<>>
       THEN LET command == undo_stack[Len(undo_stack)]
            IN  /\ undo_stack' = SubSeq(undo_stack, 1, Len(undo_stack) - 1)
                /\ redo_stack' = DequeAppend(redo_stack, command)
                /\ lines' = CmdUndo(command, lines)
                /\ Len(lines') <= MaxLines  \* exploration bound
                /\ dirty' = TRUE
                /\ last' = Last("undo", PyNone, command.type)
       ELSE /\ UNCHANGED <<undo_stack, redo_stack, lines, dirty>>
            /\ last' = Last("undo", PyNone, "nothing")
    /\ SetNav(Display(CurNav, Len(lines')))
    /\ events' = <<>>
    /\ UNCHANGED <<selection_start, selection_end, in_selection_mode>>
    /\ TrackUndo

\* TextBuffer.redo
Redo ==
    /\ Turn
    /\ IF redo_stack # <<>>
       THEN LET command == redo_stack[Len(redo_stack)]
            IN  /\ redo_stack' = SubSeq(redo_stack, 1, Len(redo_stack) - 1)
                /\ undo_stack' = DequeAppend(undo_stack, command)
                /\ lines' = CmdExecute(command, lines)
                /\ Len(lines') <= MaxLines  \* exploration bound
                /\ dirty' = TRUE
                /\ last' = Last("redo", PyNone, command.type)
       ELSE /\ UNCHANGED <<undo_stack, redo_stack, lines, dirty>>
            /\ last' = Last("redo", PyNone, "nothing")
    /\ SetNav(Display(CurNav, Len(lines')))
    /\ events' = <<>>
    /\ UNCHANGED <<selection_start, selection_end, in_selection_mode>>
    /\ TrackRedo

\* TextBuffer.edit_current_line: new_text is what the input handler hook or
\* the prompt returned
EditCurrentLine(new_text) ==
    LET cl == current_line
        was_empty == Len(lines) = 0
        ls1 == IF was_empty THEN <<"">> ELSE lines
        n1 == IF was_empty THEN SetCurrentLine(CurNav, 0, 1) ELSE CurNav
        old_text == GetLine(ls1, cl)
        cmd == LineEditCommand(cl, old_text, new_text)
    IN  /\ Turn
        /\ IF new_text # old_text
           THEN /\ undo_stack' = PushCommand(undo_stack, cmd).undo
                /\ redo_stack' = <<>>
                /\ lines' = CmdExecute(cmd, ls1)
                /\ dirty' = TRUE
           ELSE /\ UNCHANGED <<undo_stack, redo_stack>>
                /\ lines' = ls1
                /\ dirty' = (was_empty \/ dirty)
        /\ SetNav(Display(n1, Len(lines')))
        /\ events' = <<"edit_line">>
        /\ last' = Last("edit_current_line", PyNone, "None")
        /\ UNCHANGED <<selection_start, selection_end, in_selection_mode>>
        /\ TrackOp

\* TextBuffer.insert_line
InsertLine(pre_insert_result) ==
    LET cl == current_line
        r == BufInsertLine(lines, dirty, cl + 1, "", pre_insert_result)
        inserted_text == r.ret
    IN  /\ Turn
        /\ Len(lines) < MaxLines
        /\ lines' = r.lines
        /\ dirty' = r.dirty
        /\ IF inserted_text.t # "none"
           THEN /\ undo_stack' =
                       PushCommand(undo_stack,
                                   InsertLineCommand(cl + 1, inserted_text.s)).undo
                /\ redo_stack' = <<>>
                /\ SetNav(SetCurrentLine(CurNav, cl + 1, Len(r.lines)))
           ELSE /\ UNCHANGED <<undo_stack, redo_stack>>
                /\ SetNav(CurNav)
        /\ events' = r.events
        /\ last' = Last("insert_line", pre_insert_result, "None")
        /\ UNCHANGED <<selection_start, selection_end, in_selection_mode>>
        /\ TrackOp

\* TextBuffer.delete_current_line
DeleteCurrentLine(pre_delete_result) ==
    LET cl == current_line
        line_count_before == Len(lines)
    IN  IF line_count_before = 0 \/ cl >= line_count_before
        THEN /\ UNCHANGED <<lines, dirty, undo_stack, redo_stack>>
             /\ SetNav(CurNav)
             /\ events' = <<>>
             /\ last' = Last("delete_current_line", pre_delete_result, "False")
        ELSE LET r == BufDeleteLine(lines, dirty, cl, pre_delete_result)
                 deleted_text == r.ret.s
                 line_count_after == Len(r.lines)
                 n == IF cl = line_count_before - 1
                      THEN IF line_count_after > 0
                           THEN Nav(SetCurrentLine(CurNav,
                                                   line_count_after - 1,
                                                   line_count_after).cl,
                                    Max(0, line_count_after - DisplayLines))
                           ELSE Nav(0, 0)
                      ELSE SetCurrentLine(CurNav, cl, line_count_after)
             IN  /\ lines' = r.lines
                 /\ dirty' = r.dirty
                 /\ events' = r.events
                 /\ IF deleted_text # ""
                    THEN /\ undo_stack' =
                                PushCommand(undo_stack,
                                            DeleteLineCommand(cl, deleted_text)).undo
                         /\ redo_stack' = <<>>
                         /\ SetNav(Display(n, line_count_after))
                         /\ last' = Last("delete_current_line",
                                         pre_delete_result, "True")
                    ELSE /\ UNCHANGED <<undo_stack, redo_stack>>
                         /\ SetNav(CurNav)
                         /\ last' = Last("delete_current_line",
                                         pre_delete_result, "False")

\* the (line_num, text) pairs delete_selected_lines records, from `end`
\* down to `start`, skipping line numbers past the buffer end
RECURSIVE DeletedLines(_, _, _)
DeletedLines(ls, line_num, start) ==
    IF line_num < start THEN <<>>
    ELSE (IF line_num < Len(ls) THEN <<<<line_num, GetLine(ls, line_num)>>>>
          ELSE <<>>)
         \o DeletedLines(ls, line_num - 1, start)

\* TextBuffer.delete_selected_lines (the selection exists)
DeleteSelectedLines ==
    LET start == Min(selection_start, selection_end)
        end == Max(selection_start, selection_end)
        current_line_before == current_line
        deleted_lines == DeletedLines(lines, end, start)
        cmd == MultiDeleteCommand(deleted_lines)
        ls1 == CmdExecute(cmd, lines)
        line_count_after == Len(ls1)
        n == IF start <= current_line_before /\ current_line_before <= end
             THEN IF start > 0
                  THEN Nav(SetCurrentLine(CurNav, start - 1,
                                          line_count_after).cl,
                           Max(0, (start - 1) - DisplayLines + 1))
                  ELSE Nav(SetCurrentLine(CurNav, 0, line_count_after).cl, 0)
             ELSE IF current_line_before > end
                  THEN LET new_position ==
                               current_line_before - (end - start + 1)
                       IN  EnsureLineVisible(
                               SetCurrentLine(CurNav, new_position,
                                              line_count_after),
                               new_position, line_count_after)
                  ELSE EnsureLineVisible(
                           SetCurrentLine(CurNav, current_line_before,
                                          line_count_after),
                           current_line_before, line_count_after)
    IN  IF lines = <<>> \/ deleted_lines = <<>>
        THEN /\ UNCHANGED <<lines, dirty, undo_stack, redo_stack,
                            selection_start, selection_end,
                            in_selection_mode>>
             /\ SetNav(CurNav)
             /\ last' = Last("delete_selected_lines", PyNone, "False")
        ELSE /\ selection_start' = NoLine
             /\ selection_end' = NoLine
             /\ in_selection_mode' = FALSE
             /\ lines' = ls1
             /\ undo_stack' = PushCommand(undo_stack, cmd).undo
             /\ redo_stack' = <<>>
             /\ dirty' = TRUE
             /\ SetNav(Display(n, line_count_after))
             /\ last' = Last("delete_selected_lines", PyNone, "True")

\* the key "d": the selection is deleted when there is one, the current
\* line otherwise
DeleteKey(pre_delete_result) ==
    /\ Turn
    /\ IF HasSelection
       THEN DeleteSelectedLines /\ events' = <<>>
       ELSE /\ DeleteCurrentLine(pre_delete_result)
            /\ UNCHANGED <<selection_start, selection_end, in_selection_mode>>
    /\ TrackOp

\* the key "s": TextBuffer.start_selection when not in selection mode,
\* TextBuffer.end_selection otherwise (SelectionManager.start_selection /
\* end_selection; pre_selection goes through execute_hooks)
SelectKey(pre_select_result) ==
    LET cancelled == Truthy(pre_select_result)
                     /\ HasKey(pre_select_result, "cancel")
    IN  /\ Turn
        /\ IF ~in_selection_mode
           THEN /\ selection_start' =
                       IF cancelled THEN selection_start ELSE current_line
                /\ in_selection_mode' = (~cancelled \/ in_selection_mode)
                /\ UNCHANGED selection_end
                /\ events' = IF cancelled THEN <<"pre_selection">>
                             ELSE <<"pre_selection", "post_selection">>
                /\ last' = Last("start_selection", pre_select_result, "None")
           ELSE /\ IF cancelled
                   THEN UNCHANGED <<selection_start, selection_end>>
                   ELSE /\ selection_start' =
                               Min(selection_start, current_line)
                        /\ selection_end' =
                               Max(selection_start, current_line)
                /\ UNCHANGED in_selection_mode
                /\ events' = IF cancelled THEN <<"pre_selection">>
                             ELSE <<"pre_selection", "post_selection">>
                /\ last' = Last("end_selection", pre_select_result, "None")
        /\ UNCHANGED <<lines, dirty, undo_stack, redo_stack>>
        /\ SetNav(CurNav)
        /\ TrackNone

\* the (line_num, old_text, new_text) triples of an overwrite paste and the
\* buffer with the lines that fall past its end appended
RECURSIVE OverwritePlan(_, _, _, _)
OverwritePlan(ls, changes, at, rest) ==
    IF rest = <<>> THEN [lines |-> ls, changes |-> changes]
    ELSE IF at < Len(ls)
         THEN OverwritePlan(ls,
                            Append(changes, <<at, GetLine(ls, at), Head(rest)>>),
                            at + 1, Tail(rest))
         ELSE OverwritePlan(Append(ls, Head(rest)), changes, at + 1,
                            Tail(rest))

\* TextBuffer.paste_line(mode): clip is PasteBuffer.buffer after
\* load_from_clipboard, <<>> when the clipboard is empty
PasteLine(mode, clip, pre_paste_result, pre_insert_result) ==
    LET cl == current_line
    IN
    /\ Turn
    /\ IF clip = <<>>
       THEN /\ UNCHANGED <<lines, dirty, undo_stack, redo_stack>>
            /\ SetNav(CurNav)
            /\ events' = <<>>
            /\ last' = Last("paste_line", PyNone, "False")
       ELSE IF Len(clip) = 1
       THEN LET text_to_paste ==
                    IF Truthy(pre_paste_result)
                       /\ HasKey(pre_paste_result, "text")
                    THEN pre_paste_result.text ELSE clip[1]
            IN  IF mode = "insert"
                THEN LET r == BufInsertLine(lines, dirty, cl + 1,
                                            text_to_paste, pre_insert_result)
                     IN  /\ Len(lines) < MaxLines
                         /\ IF r.ret.t # "none"
                            THEN /\ lines' = r.lines
                                 /\ undo_stack' =
                                        PushCommand(undo_stack,
                                            InsertLineCommand(cl + 1,
                                                              r.ret.s)).undo
                                 /\ redo_stack' = <<>>
                                 /\ SetNav(SetCurrentLine(CurNav, cl + 1,
                                                         Len(r.lines)))
                                 /\ events' = <<"pre_paste">> \o r.events
                                              \o <<"post_paste">>
                            ELSE IF cl >= Len(r.lines)
                            THEN /\ lines' = Append(r.lines, text_to_paste)
                                 /\ UNCHANGED <<undo_stack, redo_stack>>
                                 /\ SetNav(CurNav)
                                 /\ events' = <<"pre_paste">> \o r.events
                                              \o <<"post_paste">>
                            ELSE \E pre_edit_result \in PreResults :
                                 LET old_text == GetLine(r.lines, cl)
                                     e == BufSetLine(r.lines, r.dirty, cl,
                                                     text_to_paste,
                                                     pre_edit_result)
                                 IN  /\ lines' = e.lines
                                     /\ IF e.ret.s # old_text
                                        THEN /\ undo_stack' =
                                                  PushCommand(undo_stack,
                                                      LineEditCommand(cl,
                                                          old_text,
                                                          e.ret.s)).undo
                                             /\ redo_stack' = <<>>
                                        ELSE UNCHANGED <<undo_stack,
                                                         redo_stack>>
                                     /\ SetNav(CurNav)
                                     /\ events' = <<"pre_paste">> \o r.events
                                                  \o e.events
                                                  \o <<"post_paste">>
                         /\ dirty' = TRUE
                         /\ last' = Last("paste_line", pre_insert_result,
                                         "True")
                ELSE /\ UNCHANGED <<lines, undo_stack, redo_stack>>
                     /\ dirty' = TRUE
                     /\ SetNav(CurNav)
                     /\ events' = <<"pre_paste">>
                     /\ last' = Last("paste_line", pre_paste_result, "True")
       ELSE IF mode = "insert"
       THEN LET cmd == MultiPasteInsertCommand(cl, clip)
            IN  /\ Len(lines) + Len(clip) <= MaxLines
                /\ undo_stack' = PushCommand(undo_stack, cmd).undo
                /\ redo_stack' = <<>>
                /\ lines' = CmdExecute(cmd, lines)
                /\ dirty' = TRUE
                /\ SetNav(SetCurrentLine(CurNav, cl, Len(lines) + Len(clip)))
                /\ events' = <<>>
                /\ last' = Last("paste_line", PyNone, "True")
       ELSE LET plan == OverwritePlan(lines, <<>>, cl, clip)
                cmd == MultiPasteOverwriteCommand(plan.changes)
            IN  /\ Len(plan.lines) <= MaxLines
                /\ IF plan.changes # <<>>
                   THEN /\ undo_stack' = PushCommand(undo_stack, cmd).undo
                        /\ redo_stack' = <<>>
                        /\ lines' = CmdExecute(cmd, plan.lines)
                   ELSE /\ UNCHANGED <<undo_stack, redo_stack>>
                        /\ lines' = plan.lines
                /\ dirty' = TRUE
                /\ SetNav(CurNav)
                /\ events' = <<>>
                /\ last' = Last("paste_line", PyNone, "True")
    /\ UNCHANGED <<selection_start, selection_end, in_selection_mode>>
    /\ TrackOp

(***************************************************************************)
(* The editing session: the state in which edit_interactive first awaits   *)
(* a command (a new buffer, or the buffer load_file stored), and its       *)
(* commands.                                                               *)
(***************************************************************************)
\* the state of a dispatch: the event dispatched, execute_hooks ("first")
\* or execute_all_hooks ("all"), its position, and what it returns
Dispatch(site, mode, at, result, results) ==
    [site |-> site, mode |-> mode, pc |-> at, result |-> result,
     results |-> results]

NoDispatch == Dispatch("none", "none", "idle", PyNone, <<>>)

\* no configuration store (HookManager(config_manager=None)), no file name,
\* an empty paste buffer
NoConfig == [present |-> FALSE, hooks |-> [p \in {} |-> TRUE]]
NoFilename == "<None>"
EmptyPasteBuffer == [buffer |-> <<>>, original_indents |-> <<>>,
                     common_prefix |-> <<>>]

StoreIdle ==
    /\ config = NoConfig
    /\ filename = NoFilename
    /\ paste_buffer = EmptyPasteBuffer

HooksIdle ==
    /\ hook_files = {}
    /\ disabled_hooks = {}
    /\ discovered = <<>>
    /\ pending = <<>>
    /\ hook_log = <<>>
    /\ dispatch = NoDispatch

EditorInit ==
    /\ lines \in InitialBuffers
    /\ dirty = FALSE
    /\ current_line = 0
    /\ display_start = 0
    /\ undo_stack = <<>>
    /\ redo_stack = <<>>
    /\ selection_start = NoLine
    /\ selection_end = NoLine
    /\ in_selection_mode = FALSE
    /\ pc = "display"
    /\ events = <<>>
    /\ last = Idle

Init ==
    /\ EditorInit
    /\ seq_base = <<>>
    /\ seq_ops = -1
    /\ seq_undos = 0
    /\ HooksIdle
    /\ StoreIdle

\* edit_interactive, top of the loop: self.display(), then the prompt
DisplayStep ==
    /\ pc = "display"
    /\ pc' = "command"
    /\ SetNav(Display(CurNav, Len(lines)))
    /\ events' = <<>>
    /\ last' = Idle
    /\ UNCHANGED <<lines, dirty, undo_stack, redo_stack, selection_start,
                   selection_end, in_selection_mode>>
    /\ TrackNone
    /\ UNCHANGED hook_vars
    /\ UNCHANGED store_vars

Next ==
    \/ DisplayStep
    \/ \E op \in NavOps \ {"jump_to_line"}, results \in CoordNavResults :
          Navigate(op, 0, results)
    \/ \E line_number \in JumpTargets, results \in CoordNavResults :
          Navigate("jump_to_line", line_number, results)
    \/ \E new_text \in Texts : EditCurrentLine(new_text)
    \/ \E pre \in PreResults : InsertLine(pre)
    \/ \E pre \in PreResults : DeleteKey(pre)
    \/ \E pre \in PreResults : SelectKey(pre)
    \/ \E clip \in SingleClips, pre_paste \in PreResults,
          pre_insert \in PreResults :
          PasteLine("insert", clip, pre_paste, pre_insert)
    \/ \E clip \in SingleClips, pre_paste \in PreResults :
          PasteLine("overwrite", clip, pre_paste, PyNone)
    \/ \E mode \in {"insert", "overwrite"}, clip \in MultiClips \cup {<<>>} :
          PasteLine(mode, clip, PyNone, PyNone)
    \/ Undo
    \/ Redo

Spec == Init /\ [][Next]_vars

\* the editing session with the editing sequence followed from its start
InitLaw ==
    /\ EditorInit
    /\ seq_base = lines
    /\ seq_ops = 0
    /\ seq_undos = 0
    /\ HooksIdle
    /\ StoreIdle

SpecLaw == InitLaw /\ [][Next]_vars

(***************************************************************************)
(* Properties of the editing session.                                      *)
(***************************************************************************)
\* the result of a pre-hook dispatch contains "cancel"
ContainsCancel(v) ==
    (v.t = "dict" /\ v.cancel) \/ (v.t = "str" /\ v.s = "cancel")

\* C1 -- Undo inverse law: once every editing operation of a sequence no
\* longer than the undo capacity has been answered by one undo, the buffer
\* holds, line for line, the content it had before the sequence.
C1_UndoInverseLaw ==
    (seq_ops >= 1 /\ seq_undos = seq_ops) => lines = seq_base

\* C2 -- Redo-after-undo identity: in the state an undo leaves, the redo
\* (the execute of the command now on top of the redo stack) gives back the
\* buffer as it was immediately before the undo.
C2_RedoAfterUndoIdentity ==
    [][(last'.op = "undo" /\ last'.ret # "nothing")
         => CmdExecute(redo_stack'[Len(redo_stack')], lines') = lines]_vars

\* the step pushed a command on the undo stack (a full stack drops its
\* oldest command to take it)
CommandPushed ==
    /\ undo_stack' # <<>>
    /\ undo_stack' = DequeAppend(undo_stack, undo_stack'[Len(undo_stack')])

\* C4 -- a cancelled insertion is told apart from an inserted empty line:
\* the insert command records an undo command and advances the cursor
\* exactly when the buffer gained a line, and a cancelling pre_insert leaves
\* the undo stack, the redo stack and the cursor as they were.
C4_CancelledInsertSentinel ==
    [][last'.op = "insert_line"
         => /\ (CommandPushed /\ current_line' = current_line + 1)
               <=> (Len(lines') = Len(lines) + 1)
            /\ ContainsCancel(last'.pre)
                 => UNCHANGED <<undo_stack, redo_stack, current_line>>]_vars

\* the buffer ls without its lines from..to (numbered from 0)
WithoutLines(ls, from, to) ==
    SubSeq(ls, 1, from) \o SubSeq(ls, to + 2, Len(ls))

\* the line numbers a MultiDelete command recorded
EntryLines(c) == {c.entries[i][1] : i \in 1..Len(c.entries)}

\* C13 -- Deleting a selection [s, e] removes exactly the lines s..e of the
\* buffer and records one undo entry; the undo that follows gives back the
\* buffer as it was before the delete, and the redo after that undo gives
\* exactly the buffer the delete left.
C13_DeleteSelectionAtomic ==
    [][/\ (last'.op = "delete_selected_lines" /\ last'.ret = "True")
            => /\ lines' = WithoutLines(lines,
                                        Min(selection_start, selection_end),
                                        Max(selection_start, selection_end))
               /\ CommandPushed
               /\ undo_stack'[Len(undo_stack')].type = "MultiDelete"
               /\ redo_stack' = <<>>
       /\ (/\ seq_ops = 1 /\ seq_undos = 0
           /\ undo_stack # <<>>
           /\ undo_stack[Len(undo_stack)].type = "MultiDelete"
           /\ last'.op = "undo")
            => /\ lines' = seq_base
               /\ undo_stack' = <<>>
       /\ (/\ seq_ops = 1 /\ seq_undos = 1
           /\ last'.op = "redo" /\ last'.ret = "MultiDelete")
            => LET deleted == EntryLines(undo_stack'[Len(undo_stack')])
               IN  lines' = WithoutLines(seq_base,
                               CHOOSE n \in deleted : \A k \in deleted : n <= k,
                               CHOOSE n \in deleted : \A k \in deleted : n >= k)
      ]_vars

\* the two lines of a buffer, deleted as one selection, have been restored
\* by one undo
C13_Witness ==
    /\ seq_ops = 1 /\ seq_undos = 1
    /\ redo_stack # <<>>
    /\ redo_stack[Len(redo_stack)].type = "MultiDelete"
    /\ Len(redo_stack[Len(redo_stack)].entries) = 2
    /\ Len(lines) = 2
    /\ lines = seq_base

\* the cursor and the viewport fit a buffer of line_count lines
CursorInBuffer(cl, line_count) ==
    IF line_count = 0 THEN cl = 0 ELSE 0 <= cl /\ cl < line_count
CursorInViewport(cl, ds) == ds <= cl /\ cl < ds + DisplayLines
ViewportInBuffer(ds, line_count) ==
    0 <= ds /\ ds <= Max(0, line_count - DisplayLines)

\* C10 -- whenever the editor awaits a command the cursor is a line of the
\* buffer (0 when it is empty), the cursor is inside the viewport and the
\* viewport starts between 0 and max(0, line_count - display_lines).
C10_AwaitingCommandInvariant ==
    pc = "command"
      => /\ CursorInBuffer(current_line, Len(lines))
         /\ CursorInViewport(current_line, display_start)
         /\ ViewportInBuffer(display_start, Len(lines))

(***************************************************************************)
(* BufferManager on its own: its three mutating calls, made with any index *)
(* and with any result the pre-hook dispatch (execute_hooks) can return.   *)
(***************************************************************************)
\* index arguments, in and out of range
Indices == -1..(MaxLines + 1)

EditorIdle ==
    /\ current_line = 0
    /\ display_start = 0
    /\ undo_stack = <<>>
    /\ redo_stack = <<>>
    /\ selection_start = NoLine
    /\ selection_end = NoLine
    /\ in_selection_mode = FALSE
    /\ pc = "command"
    /\ events = <<>>
    /\ last = Idle
    /\ seq_base = <<>>
    /\ seq_ops = -1
    /\ seq_undos = 0

BufferCall(op, r, pre) ==
    /\ lines' = r.lines
    /\ dirty' = r.dirty
    /\ events' = r.events
    /\ last' = Last(op, pre, r.ret.s)
    /\ UNCHANGED <<current_line, display_start, undo_stack, redo_stack,
                   selection_start, selection_end, in_selection_mode, pc,
                   seq_base, seq_ops, seq_undos>>
    /\ UNCHANGED hook_vars
    /\ UNCHANGED store_vars

BufferInsertLine(index, text, pre_insert_result) ==
    /\ Len(lines) < MaxLines
    /\ BufferCall("BufferManager.insert_line",
                  BufInsertLine(lines, dirty, index, text, pre_insert_result),
                  pre_insert_result)

BufferDeleteLine(index, pre_delete_result) ==
    BufferCall("BufferManager.delete_line",
               BufDeleteLine(lines, dirty, index, pre_delete_result),
               pre_delete_result)

BufferSetLine(index, text, pre_edit_result) ==
    BufferCall("BufferManager.set_line",
               BufSetLine(lines, dirty, index, text, pre_edit_result),
               pre_edit_result)

InitBuffer ==
    /\ lines \in BuffersUpTo(MaxLines)
    /\ dirty \in BOOLEAN
    /\ EditorIdle
    /\ HooksIdle
    /\ StoreIdle

NextBuffer ==
    \/ \E index \in Indices, text \in Texts, pre \in FirstResults :
          BufferInsertLine(index, text, pre)
    \/ \E index \in Indices, pre \in FirstResults :
          BufferDeleteLine(index, pre)
    \/ \E index \in Indices, text \in Texts, pre \in FirstResults :
          BufferSetLine(index, text, pre)

SpecBuffer == InitBuffer /\ [][NextBuffer]_vars

\* C3 -- Cancellation contract: when the result of the pre_insert dispatch
\* contains cancel, insert_line leaves the lines (their count and content)
\* and the dirty flag as they were and fires no post_insert.
C3_CancelledInsertLeavesBuffer ==
    [][(last'.op = "BufferManager.insert_line" /\ ContainsCancel(last'.pre))
         => /\ lines' = lines
            /\ dirty' = dirty
            /\ \A i \in 1..Len(events') : events'[i] # "post_insert"]_vars

\* a cancelled insert_line was made on a buffer that has lines
C3_Witness ==
    /\ last.op = "BufferManager.insert_line"
    /\ ContainsCancel(last.pre)
    /\ events = <<"pre_insert">>
    /\ lines # <<>>
    /\ ~dirty

(***************************************************************************)
(* NavigationManager on its own: its calls made from any cursor/viewport   *)
(* state, for a buffer of any length, with any pre_navigation results.     *)
(***************************************************************************)
\* cursor and viewport values before a call, and jump targets: the lines of
\* the longest buffer and one value on either side
NavRange == -1..MaxLines

NavStep(op, line_number, results) ==
    LET r == NavCall(op, CurNav, line_number, Len(lines), results)
    IN  /\ SetNav(r.nav)
        /\ events' = r.events
        /\ last' = Last(op, PyNone, PyBool(r.ret))
        /\ UNCHANGED <<lines, dirty, undo_stack, redo_stack, selection_start,
                       selection_end, in_selection_mode, pc, seq_base,
                       seq_ops, seq_undos>>
        /\ UNCHANGED hook_vars
        /\ UNCHANGED store_vars

InitNav ==
    /\ lines \in {ls \in BuffersUpTo(MaxLines) : \A i \in 1..Len(ls) : ls[i] = ""}
    /\ dirty = FALSE
    /\ current_line \in NavRange
    /\ display_start \in NavRange
    /\ undo_stack = <<>>
    /\ redo_stack = <<>>
    /\ selection_start = NoLine
    /\ selection_end = NoLine
    /\ in_selection_mode = FALSE
    /\ pc = "command"
    /\ events = <<>>
    /\ last = Idle
    /\ seq_base = <<>>
    /\ seq_ops = -1
    /\ seq_undos = 0
    /\ HooksIdle
    /\ StoreIdle

NextNav ==
    \/ \E op \in NavOps \ {"jump_to_line"}, results \in NavHookResults :
          NavStep(op, 0, results)
    \/ \E line_number \in NavRange, results \in NavHookResults :
          NavStep("jump_to_line", line_number, results)

SpecNav == InitNav /\ [][NextNav]_vars

\* C9 as stated -- Viewport invariant after navigation: after any
\* navigation call on a buffer with lines, whatever the cursor and viewport
\* were before, the cursor is inside the viewport, the viewport does not
\* start below 0 and the cursor is a line of the buffer.
C9_ViewportAfterAnyCall ==
    (last.op \in NavOps /\ Len(lines) > 0)
      => /\ CursorInViewport(current_line, display_start)
         /\ display_start >= 0
         /\ 0 <= current_line /\ current_line < Len(lines)

\* C9 amended -- the same, for the calls that were carried out (returned
\* True): a call cancelled by a pre_navigation hook leaves the cursor and
\* the viewport as it found them.
C9_ViewportAfterCall ==
    (last.op \in NavOps /\ last.ret = "True")
      => /\ Len(lines) > 0
         /\ CursorInViewport(current_line, display_start)
         /\ display_start >= 0
         /\ 0 <= current_line /\ current_line < Len(lines)

\* a call that was carried out and had to move both cursor and viewport
C9_Witness ==
    /\ last.op = "page_down"
    /\ last.ret = "True"
    /\ Len(lines) = MaxLines
    /\ current_line = MaxLines - 1
    /\ display_start = MaxLines - DisplayLines

\* one of the results collected from the pre_navigation hooks contains
\* cancel: a map with the key, or the string
SomeContainsCancel(results) ==
    \E i \in 1..Len(results) : ContainsCancel(results[i])

\* C19 -- Cancelled navigation: when a pre_navigation hook returns a result
\* containing cancel, the navigation call (navigate, jump_to_line,
\* jump_to_beginning, jump_to_end, page_up, page_down) on a buffer with
\* lines is aborted: current_line and display_start are unchanged and no
\* post_navigation hook fires.
C19_CancelledNavigationAborts ==
    [][\A op \in NavOps, line_number \in NavRange,
          results \in NavHookResults :
          (NavStep(op, line_number, results) /\ Len(lines) > 0
             /\ SomeContainsCancel(results))
            => /\ current_line' = current_line
               /\ display_start' = display_start
               /\ \A i \in 1..Len(events') : events'[i] # "post_navigation"]_vars

(***************************************************************************)
(* Hook discovery (hook_manager.py).  A file name is the sequence of its   *)
(* characters; the directory prefix, the same for all files of one         *)
(* category/type directory, is left out of names and ids.                  *)
(***************************************************************************)
\* the characters of file names, in ascending code point order
Alphabet ==
    <<"-", ".", "0", "1", "2", "3", "4", "5", "6", "7", "8", "9", "_",
      "a", "b", "c", "d", "e", "f", "g", "h", "i", "j", "k", "l",
      "m", "n", "o", "p", "q", "r", "s", "t", "u", "v", "w", "x",
      "y", "z">>

\* the position of a character in the order Python compares strings by
CharRank(c) == CHOOSE i \in 1..Len(Alphabet) : Alphabet[i] = c

Digits == {"0", "1", "2", "3", "4", "5", "6", "7", "8", "9"}

DigitValue(c) == CharRank(c) - CharRank("0")

\* a < b for Python strings
RECURSIVE StrLess(_, _)
StrLess(a, b) ==
    IF b = <<>> THEN FALSE
    ELSE IF a = <<>> THEN TRUE
    ELSE IF Head(a) = Head(b) THEN StrLess(Tail(a), Tail(b))
    ELSE CharRank(Head(a)) < CharRank(Head(b))

\* s.lstrip("_")
RECURSIVE LStripUnderscore(_)
LStripUnderscore(s) ==
    IF s # <<>> /\ Head(s) = "_" THEN LStripUnderscore(Tail(s)) ELSE s

\* "__" in s
HasDoubleUnderscore(s) ==
    \E i \in 1..(Len(s) - 1) : s[i] = "_" /\ s[i + 1] = "_"

\* s.split("__")[-1]: the separators are matched from the left
RECURSIVE SplitLast(_)
SplitLast(s) ==
    IF ~HasDoubleUnderscore(s) THEN s
    ELSE LET i == CHOOSE k \in 1..(Len(s) - 1) :
                      /\ s[k] = "_" /\ s[k + 1] = "_"
                      /\ \A j \in 1..(k - 1) : ~(s[j] = "_" /\ s[j + 1] = "_")
         IN  SplitLast(SubSeq(s, i + 2, Len(s)))

\* "__".join(s.split("__")[:-1]): s without its last part and separator
SplitButLast(s) == SubSeq(s, 1, Len(s) - Len(SplitLast(s)) - 2)

\* int(s) succeeds: an optional sign, then digits that single underscores
\* may separate
IsInt(s) ==
    LET body == IF s # <<>> /\ Head(s) \in {"-", "+"} THEN Tail(s) ELSE s
    IN  /\ body # <<>>
        /\ \A i \in 1..Len(body) : body[i] \in Digits \cup {"_"}
        /\ body[1] \in Digits
        /\ body[Len(body)] \in Digits
        /\ ~HasDoubleUnderscore(body)

RECURSIVE DigitsValue(_, _)
DigitsValue(body, acc) ==
    IF body = <<>> THEN acc
    ELSE IF Head(body) = "_" THEN DigitsValue(Tail(body), acc)
    ELSE DigitsValue(Tail(body), 10 * acc + DigitValue(Head(body)))

\* int(s) when it succeeds
IntValue(s) ==
    IF Head(s) = "-" THEN 0 - DigitsValue(Tail(s), 0)
    ELSE IF Head(s) = "+" THEN DigitsValue(Tail(s), 0)
    ELSE DigitsValue(s, 0)

\* the index of the last "." of a name that is not its first character and
\* not its last, 0 when there is none
SuffixStart(name) ==
    LET dots == {i \in 2..(Len(name) - 1) : name[i] = "."}
    IN  IF dots = {} THEN 0 ELSE CHOOSE i \in dots : \A j \in dots : j <= i

\* Path.suffix and Path.stem
PathSuffix(name) ==
    IF SuffixStart(name) = 0 THEN <<>>
    ELSE SubSeq(name, SuffixStart(name), Len(name))
PathStem(name) ==
    IF SuffixStart(name) = 0 THEN name
    ELSE SubSeq(name, 1, SuffixStart(name) - 1)

\* the suffixes _get_sorted_hooks accepts
SupportedSuffixes ==
    {<<".", "p", "y">>,
     <<".", "j", "s">>,
     <<".", "p", "l">>,
     <<".", "r", "b">>,
     <<".", "s", "h">>,
     <<".", "l", "u", "a">>,
     <<".", "p", "h", "p">>}

PySuffix == <<".", "p", "y">>

DefaultPriority == 50

\* HookManager._get_hook_priority
GetHookPriority(name) ==
    LET stem == LStripUnderscore(PathStem(name))
    IN  IF HasDoubleUnderscore(stem)
        THEN LET priority_str == SplitLast(stem)
             IN  IF IsInt(priority_str) THEN IntValue(priority_str)
                 ELSE DefaultPriority
        ELSE DefaultPriority

\* str.replace(".py", "") on a name of the pool: ".py" occurs in these
\* names as the suffix only
ReplacePy(name) ==
    IF PathSuffix(name) = PySuffix THEN PathStem(name) ELSE name

\* hook_file.relative_to(self.hooks_dir) for a file of the directory
\* explored, <category>/<type>/ written "c/"
HookDir == <<"c", "/">>
RelPath(name) == HookDir \o name

\* HookManager.get_hook_id, of the relative path of the file
GetHookId(rel_path) ==
    LET hook_id == LStripUnderscore(ReplacePy(rel_path))
    IN  IF HasDoubleUnderscore(hook_id) /\ IsInt(SplitLast(hook_id))
        THEN SplitButLast(hook_id)
        ELSE hook_id

\* key.split("."): the segments of a dotted configuration key
RECURSIVE SplitDot(_)
SplitDot(s) ==
    IF \A i \in 1..Len(s) : s[i] # "." THEN <<s>>
    ELSE LET i == CHOOSE k \in 1..Len(s) :
                      s[k] = "." /\ \A j \in 1..(k - 1) : s[j] # "."
         IN  <<SubSeq(s, 1, i - 1)>> \o SplitDot(SubSeq(s, i + 1, Len(s)))

\* The "hooks" section of config.json is a map from key paths to the
\* "enabled" flag stored under them: hooks[k1][k2]...["enabled"].  The entry
\* of a hook, {"<id>": {"enabled": b}}, is the path <<id>>.
\* `hook_id in config["hooks"]`
ConfigHasKey(hooks, hook_id) == \E p \in DOMAIN hooks : p[1] = hook_id

\* ConfigManager._ensure_hook_exists
EnsureHookExists(hooks, hook_id) ==
    IF ConfigHasKey(hooks, hook_id) THEN hooks
    ELSE [p \in DOMAIN hooks \cup {<<hook_id>>} |->
             IF p = <<hook_id>> THEN TRUE ELSE hooks[p]]

\* ConfigManager.get("hooks.<hook_id>.enabled", True): the key is split at
\* its dots and the map walked segment by segment
ConfigGet(hooks, hook_id) ==
    IF SplitDot(hook_id) \in DOMAIN hooks THEN hooks[SplitDot(hook_id)]
    ELSE TRUE

\* ConfigManager.set("hooks.<hook_id>.enabled", value)
ConfigSet(hooks, hook_id, value) ==
    [p \in DOMAIN hooks \cup {SplitDot(hook_id)} |->
        IF p = SplitDot(hook_id) THEN value ELSE hooks[p]]

\* ConfigManager.get_hook_enabled / set_hook_enabled
GetHookEnabled(hooks, hook_id) ==
    ConfigGet(EnsureHookExists(hooks, hook_id), hook_id)
SetHookEnabled(hooks, hook_id, enabled) ==
    ConfigSet(EnsureHookExists(hooks, hook_id), hook_id, enabled)

\* HookManager.is_hook_enabled
IsHookEnabled(hook_id) ==
    IF config.present THEN GetHookEnabled(config.hooks, hook_id)
    ELSE hook_id \notin disabled_hooks

\* the sort key (-priority, file.name) and Python's order on such tuples
SortKey(x) == <<0 - x[1], x[3]>>

\* the comparison of sort keys with the file name left out of the key
KeyLessPriorityOnly(k1, k2) == k1[1] < k2[1]

KeyLess(k1, k2) ==
    k1[1] < k2[1] \/ (k1[1] = k2[1] /\ StrLess(k1[2], k2[2]))

\* list.sort(key=...): stable, every element placed after the elements
\* whose key is not greater than its own
RECURSIVE SortByKey(_)
SortByKey(hooks) ==
    IF hooks = <<>> THEN <<>>
    ELSE LET rest == SortByKey(SubSeq(hooks, 1, Len(hooks) - 1))
             h == hooks[Len(hooks)]
             k == Cardinality({i \in 1..Len(rest) :
                                 ~KeyLess(SortKey(h), SortKey(rest[i]))})
         IN  SubSeq(rest, 1, k) \o <<h>> \o SubSeq(rest, k + 1, Len(rest))

\* the filter of _get_sorted_hooks
IsListedHook(name) ==
    /\ PathSuffix(name) \in SupportedSuffixes
    /\ name[1] # "_"
    /\ IsHookEnabled(GetHookId(RelPath(name)))

\* HookManager._get_sorted_hooks; listing is hook_dir.iterdir(), the files
\* of the directory in the order the file system yields them
GetSortedHooks(listing) ==
    LET files == SelectSeq(listing, IsListedHook)
        hooks == [i \in 1..Len(files) |->
                    <<GetHookPriority(files[i]), GetHookId(RelPath(files[i])),
                      files[i]>>]
        sorted == SortByKey(hooks)
    IN  [i \in 1..Len(sorted) |-> sorted[i][3]]

\* the orders in which a directory holding `files` can be enumerated
RECURSIVE Listings(_)
Listings(files) ==
    IF files = {} THEN {<<>>}
    ELSE UNION {{<<f>> \o l : l \in Listings(files \ {f})} : f \in files}

\* file names hook directories are populated from
PoolFile ==
    [a90py |-> <<"a", "_", "_", "9", "0", ".", "p", "y">>,
     a90sh |-> <<"a", "_", "_", "9", "0", ".", "s", "h">>,
     b90sh |-> <<"b", "_", "_", "9", "0", ".", "s", "h">>,
     c10py |-> <<"c", "_", "_", "1", "0", ".", "p", "y">>,
     dpy |-> <<"d", ".", "p", "y">>,
     expy |-> <<"e", "_", "_", "x", ".", "p", "y">>,
     hidden |-> <<"_", "h", "_", "_", "9", "9", ".", "p", "y">>,
     neg5py |-> <<"n", "_", "_", "-", "5", ".", "p", "y">>,
     u10sh |-> <<"u", "_", "_", "1", "_", "0", ".", "s", "h">>,
     t5py |-> <<"t", "_", "_", "_", "5", ".", "p", "y">>,
     r70txt |-> <<"r", "_", "_", "7", "0", ".", "t", "x", "t">>,
     x7py |-> <<"x", "_", "_", "b", "_", "_", "7", ".", "p", "y">>]

HookPool == {PoolFile[k] : k \in DOMAIN PoolFile}

\* the hook directories explored: at most MaxFiles files of the pool
Directories == {d \in SUBSET HookPool : Cardinality(d) <= MaxFiles}

\* the sets of disabled hook ids explored
DisabledSets ==
    {{}, {GetHookId(RelPath(PoolFile.a90py))},
     {GetHookId(RelPath(PoolFile.b90sh))},
     {GetHookId(RelPath(PoolFile.dpy)), GetHookId(RelPath(PoolFile.c10py))}}

\* the ids _get_sorted_hooks asks is_hook_enabled about
QueriedIds(listing) ==
    {GetHookId(RelPath(listing[i])) :
        i \in {k \in 1..Len(listing) :
                  /\ PathSuffix(listing[k]) \in SupportedSuffixes
                  /\ listing[k][1] # "_"}}

RECURSIVE EnsureAll(_, _)
EnsureAll(hooks, ids) ==
    IF ids = {} THEN hooks
    ELSE LET id == CHOOSE x \in ids : TRUE
         IN  EnsureAll(EnsureHookExists(hooks, id), ids \ {id})

\* the configuration after _get_sorted_hooks: get_hook_enabled stores an
\* entry for every id it is asked about
ConfigAfterDiscovery(listing) ==
    IF config.present
    THEN [config EXCEPT !.hooks = EnsureAll(@, QueriedIds(listing))]
    ELSE config

\* a directory is enumerated and its hooks sorted
Discover(listing) ==
    /\ dispatch.pc = "idle"
    /\ discovered' = GetSortedHooks(listing)
    /\ dispatch' = Dispatch("none", "none", "discovered", PyNone, <<>>)
    /\ UNCHANGED <<hook_files, disabled_hooks, pending, hook_log>>
    /\ UNCHANGED editor_vars
    /\ config' = ConfigAfterDiscovery(listing)
    /\ UNCHANGED <<filename, paste_buffer>>

InitDiscovery ==
    /\ lines = <<>>
    /\ dirty = FALSE
    /\ EditorIdle
    /\ hook_files \in Directories
    /\ disabled_hooks \in DisabledSets
    /\ discovered = <<>>
    /\ pending = <<>>
    /\ hook_log = <<>>
    /\ dispatch = NoDispatch
    /\ StoreIdle

NextDiscovery == \E listing \in Listings(hook_files) : Discover(listing)

SpecDiscovery == InitDiscovery /\ [][NextDiscovery]_vars

\* the priority each file name of the pool declares: the number after its
\* "__" separator, 50 when there is no separator or no number after it
C5_DeclaredPriority(name) ==
    CASE name = PoolFile.a90py -> 90
      [] name = PoolFile.a90sh -> 90
      [] name = PoolFile.b90sh -> 90
      [] name = PoolFile.c10py -> 10
      [] name = PoolFile.dpy -> 50
      [] name = PoolFile.expy -> 50
      [] name = PoolFile.hidden -> 99
      [] name = PoolFile.neg5py -> 0 - 5
      [] name = PoolFile.u10sh -> 10
      [] name = PoolFile.t5py -> 50
      [] name = PoolFile.r70txt -> 70
      [] name = PoolFile.x7py -> 7

\* C5 -- Priority ordering: discovery returns exactly the enabled hooks of
\* the directory, each once, by descending declared priority and, among
\* equal priorities, by ascending file name. That order is strict, so it
\* fixes one sequence per directory, and the state after every enumeration
\* order of the directory satisfies it: the order of enumeration does not
\* show in the result. Hooks with priorities 10, 90, 50, 90 come out as
\* 90 (first by name), 90, 50, 10.
C5_PriorityOrdering ==
    dispatch.pc = "discovered"
      => /\ {discovered[i] : i \in 1..Len(discovered)}
              = {f \in hook_files : IsListedHook(f)}
         /\ \A i, j \in 1..Len(discovered) :
               i < j
                 => \/ C5_DeclaredPriority(discovered[i])
                         > C5_DeclaredPriority(discovered[j])
                    \/ /\ C5_DeclaredPriority(discovered[i])
                            = C5_DeclaredPriority(discovered[j])
                       /\ StrLess(discovered[i], discovered[j])
         /\ (/\ hook_files = {PoolFile.c10py, PoolFile.b90sh, PoolFile.dpy,
                              PoolFile.a90py}
             /\ disabled_hooks = {})
               => discovered = <<PoolFile.a90py, PoolFile.b90sh,
                                 PoolFile.dpy, PoolFile.c10py>>

\* the directory with priorities 10, 90, 50, 90 has been discovered
C5_Witness ==
    /\ dispatch.pc = "discovered"
    /\ hook_files = {PoolFile.c10py, PoolFile.b90sh, PoolFile.dpy,
                     PoolFile.a90py}
    /\ disabled_hooks = {}
    /\ Len(discovered) = 4
    /\ discovered[1] = PoolFile.a90py

(***************************************************************************)
(* Hook dispatch (hook_manager.py, hook_utils.py).  A dispatch discovers   *)
(* the hooks of the event's directory and runs them one at a time; what a  *)
(* hook does is an input of the step that runs it.                         *)
(***************************************************************************)
\* what running a hook can come to: an in-process hook returns a value or
\* raises; a subprocess exits 0 or not, times out, cannot be started for
\* want of its interpreter, or fails to start for another reason (OSError)
Outcome(kind, value) == [kind |-> kind, value |-> value]

ScriptOutcomes == {"exit0", "nonzero", "timeout", "no_interpreter", "oserror"}

Outcomes(name) ==
    IF PathSuffix(name) = PySuffix
    THEN {Outcome("return", v) : v \in PyHookValues}
         \cup {Outcome("raise", PyNone)}
    ELSE {Outcome(k, PyNone) : k \in ScriptOutcomes}

\* HookManager._execute_hook: the value returned, or the exception that
\* leaves it (an in-process hook's exception is caught inside and gives
\* None; execute_script catches the timeout and the missing interpreter)
ExecuteHook(name, outcome) ==
    IF PathSuffix(name) = PySuffix
    THEN [raised |-> FALSE,
          value |-> IF outcome.kind = "return" THEN outcome.value ELSE PyNone]
    ELSE IF outcome.kind = "oserror"
         THEN [raised |-> TRUE, value |-> PyNone]
         ELSE [raised |-> FALSE, value |-> ScriptWrapper(outcome.kind)]

\* the events dispatched and the HookManager entry point each call site
\* uses: execute_hooks (the first handled result) or execute_all_hooks
FirstSites == {"pre_insert", "pre_paste", "post_edit"}
AllSites == {"pre_navigation", "post_save", "post_load", "post_insert",
             "post_delete", "post_paste", "post_navigation"}
DispatchMode(site) == IF site \in FirstSites THEN "first" ELSE "all"

LogEntry(name, outcome, r) ==
    [file |-> name, kind |-> outcome.kind, raised |-> r.raised,
     value |-> r.value]

\* execute_hooks / execute_all_hooks up to the call of _get_sorted_hooks
BeginDispatch(site, listing) ==
    /\ dispatch.pc = "idle"
    /\ discovered' = GetSortedHooks(listing)
    /\ pending' = discovered'
    /\ hook_log' = <<>>
    /\ dispatch' = Dispatch(site, DispatchMode(site), "running", PyNone, <<>>)
    /\ UNCHANGED <<hook_files, disabled_hooks>>
    /\ UNCHANGED editor_vars
    /\ config' = ConfigAfterDiscovery(listing)
    /\ UNCHANGED <<filename, paste_buffer>>

\* one turn of the loop of execute_hooks
RunHookFirst(outcome) ==
    /\ dispatch.pc = "running"
    /\ dispatch.mode = "first"
    /\ pending # <<>>
    /\ outcome \in Outcomes(Head(pending))
    /\ LET r == ExecuteHook(Head(pending), outcome)
       IN  /\ hook_log' = Append(hook_log, LogEntry(Head(pending), outcome, r))
           /\ pending' = Tail(pending)
           /\ IF ~r.raised /\ HandleResult(r.value) = "return"
              THEN dispatch' = [dispatch EXCEPT !.pc = "done",
                                                !.result = r.value]
              ELSE UNCHANGED dispatch
    /\ UNCHANGED <<hook_files, disabled_hooks, discovered>>
    /\ UNCHANGED editor_vars
    /\ UNCHANGED store_vars

\* one turn of the loop of execute_all_hooks
RunHookAll(outcome) ==
    /\ dispatch.pc = "running"
    /\ dispatch.mode = "all"
    /\ pending # <<>>
    /\ outcome \in Outcomes(Head(pending))
    /\ LET r == ExecuteHook(Head(pending), outcome)
       IN  /\ hook_log' = Append(hook_log, LogEntry(Head(pending), outcome, r))
           /\ pending' = Tail(pending)
           /\ dispatch' =
                 IF ~r.raised /\ r.value.t # "none"
                 THEN [dispatch EXCEPT
                          !.results = Append(dispatch.results, r.value)]
                 ELSE dispatch
    /\ UNCHANGED <<hook_files, disabled_hooks, discovered>>
    /\ UNCHANGED editor_vars
    /\ UNCHANGED store_vars

\* the loop ran out of hooks: return None, or the list of results
EndDispatch ==
    /\ dispatch.pc = "running"
    /\ pending = <<>>
    /\ dispatch' = [dispatch EXCEPT !.pc = "done"]
    /\ UNCHANGED <<hook_files, disabled_hooks, discovered, pending, hook_log>>
    /\ UNCHANGED editor_vars
    /\ UNCHANGED store_vars

\* the hook directories the dispatch is explored with
DispatchDirectories ==
    {{PoolFile.a90py, PoolFile.dpy, PoolFile.u10sh},
     {PoolFile.dpy, PoolFile.expy},
     {PoolFile.b90sh, PoolFile.u10sh, PoolFile.hidden}}

InitDispatch ==
    /\ lines = <<>>
    /\ dirty = FALSE
    /\ EditorIdle
    /\ hook_files \in DispatchDirectories
    /\ disabled_hooks = {}
    /\ discovered = <<>>
    /\ pending = <<>>
    /\ hook_log = <<>>
    /\ dispatch = NoDispatch
    /\ StoreIdle

NextDispatch ==
    \/ \E site \in FirstSites \cup AllSites, listing \in Listings(hook_files) :
          BeginDispatch(site, listing)
    \/ \E outcome \in UNION {Outcomes(f) : f \in hook_files} :
          RunHookFirst(outcome)
    \/ \E outcome \in UNION {Outcomes(f) : f \in hook_files} :
          RunHookAll(outcome)
    \/ EndDispatch

SpecDispatch == InitDispatch /\ [][NextDispatch]_vars

\* a hook's run produced a handled result: a non-empty string, a map with
\* handled_output == 1, or any non-null result without handled_output == 0
C6_Handled(e) ==
    /\ ~e.raised
    /\ e.kind # "raise"
    /\ e.value.t # "none"
    /\ \/ (e.value.t = "str" /\ e.value.s # "")
       \/ (e.value.t = "dict" /\ e.value.ho = 1)
       \/ ~(e.value.t = "dict" /\ e.value.ho = 0)

\* C6 -- execute_first: the hooks run are the first hooks of the discovery
\* order, in that order; every hook run before the last one did not handle
\* (handled_output == 0, null, or raised); when the last hook run handled,
\* its result is what the dispatch returns and no later hook has run;
\* otherwise all hooks have run and the dispatch returns None.
C6_ExecuteFirst ==
    dispatch.mode = "first"
      => LET n == Len(hook_log)
         IN  /\ n <= Len(discovered)
             /\ \A i \in 1..n : hook_log[i].file = discovered[i]
             /\ \A i \in 1..(n - 1) : ~C6_Handled(hook_log[i])
             /\ dispatch.pc = "running"
                  => \A i \in 1..n : ~C6_Handled(hook_log[i])
             /\ dispatch.pc = "done"
                  => IF n > 0 /\ C6_Handled(hook_log[n])
                     THEN dispatch.result = hook_log[n].value
                     ELSE n = Len(discovered) /\ dispatch.result = PyNone

\* a dispatch of three hooks: the first declined with handled_output == 0,
\* the second handled with a string, the third never ran
C6_Witness ==
    /\ dispatch.mode = "first"
    /\ dispatch.pc = "done"
    /\ Len(discovered) = 3
    /\ Len(hook_log) = 2
    /\ hook_log[1].value.t = "dict" /\ hook_log[1].value.ho = 0
    /\ dispatch.result = Str("ok")

\* the post-events an operation fires
PostEvents == {"post_save", "post_load", "post_insert", "post_delete",
               "post_paste", "post_edit", "post_navigation"}

\* C7 -- when the dispatch of a post-event has returned, every enabled hook
\* of the event has run exactly once, in discovery order.
C7_PostEventsRunAllHooks ==
    (dispatch.pc = "done" /\ dispatch.site \in PostEvents)
      => /\ Len(hook_log) = Len(discovered)
         /\ \A i \in 1..Len(hook_log) : hook_log[i].file = discovered[i]

\* the ways an out-of-process hook fails
HookFailures == {"timeout", "nonzero", "no_interpreter"}

\* C8 -- HookFailure: a subprocess hook that timed out, exited nonzero or
\* lacked its interpreter counts as having produced no result: execute_first
\* goes on to the next hook and does not return the failure record.
C8_FailureIsNoResult ==
    (dispatch.pc = "done" /\ dispatch.mode = "first")
      => \A i \in 1..Len(hook_log) :
            hook_log[i].kind \in HookFailures
              => /\ i < Len(discovered) => Len(hook_log) > i
                 /\ dispatch.result # hook_log[i].value


(***************************************************************************)
(* Hook registry (hook_manager.py, config.py): which hooks are enabled,    *)
(* from the configuration store and the underscore prefix of file names.   *)
(***************************************************************************)
IsHookFile(name) == PathSuffix(name) \in SupportedSuffixes

\* the ids _load_disabled_hooks derives from the underscore-prefixed files
FsDisabled(files) ==
    {LStripUnderscore(ReplacePy(RelPath(f))) :
        f \in {g \in files : IsHookFile(g) /\ g[1] = "_"}}

\* the ids _load_disabled_hooks reads from get_all_hook_configs: the
\* entries {"<id>": {"enabled": false}}
ConfigDisabled(hooks) ==
    {p[1] : p \in {q \in DOMAIN hooks : Len(q) = 1 /\ ~hooks[q]}}

\* the extensions find_hook_file_by_id tries after ".py", in its order
OtherSuffixes ==
    <<<<".", "j", "s">>, <<".", "p", "l">>, <<".", "r", "b">>,
      <<".", "s", "h">>, <<".", "l", "u", "a">>, <<".", "p", "h", "p">>>>

\* HookManager.find_hook_file_by_id: the files it can return (none when the
\* set is empty; the recursive search returns the first match in the order
\* the file system enumerates the files)
FindHookFileById(files, hook_id) ==
    LET exact(suffix) == {f \in files : RelPath(f) = hook_id \o suffix}
        exts == {i \in 1..Len(OtherSuffixes) : exact(OtherSuffixes[i]) # {}}
    IN  IF exact(PySuffix) # {} THEN exact(PySuffix)
        ELSE IF exts # {}
             THEN exact(OtherSuffixes[CHOOSE i \in exts :
                                         \A j \in exts : i <= j])
             ELSE {f \in files : IsHookFile(f)
                                 /\ GetHookId(RelPath(f)) = hook_id}

\* hook_file.rename(...) of enable_hook and of disable_hook
RenameEnabled(files, f) ==
    IF f[1] = "_" THEN (files \ {f}) \cup {LStripUnderscore(f)} ELSE files
RenameDisabled(files, f) ==
    IF f[1] # "_" THEN (files \ {f}) \cup {<<"_">> \o f} ELSE files

\* the two loops of _sync_filesystem_to_config; the directories explored
\* hold at most one file per id, so the order of the ids does not matter
RECURSIVE SyncEnable(_, _)
SyncEnable(files, ids) ==
    IF ids = {} THEN files
    ELSE LET id == CHOOSE x \in ids : TRUE
             found == FindHookFileById(files, id)
         IN  SyncEnable(IF found = {} THEN files
                        ELSE RenameEnabled(files, CHOOSE f \in found : TRUE),
                        ids \ {id})

RECURSIVE SyncDisable(_, _)
SyncDisable(files, ids) ==
    IF ids = {} THEN files
    ELSE LET id == CHOOSE x \in ids : TRUE
             found == FindHookFileById(files, id)
         IN  SyncDisable(IF found = {} THEN files
                         ELSE RenameDisabled(files, CHOOSE f \in found : TRUE),
                         ids \ {id})

\* the last operation of the registry, as `events` keeps it: its name, the
\* id passed, and the enabled hook files the id named when it began
RegistryOp(op, hook_id) ==
    [op |-> op, id |-> hook_id,
     files |-> {f \in hook_files : /\ IsHookFile(f)
                                   /\ f[1] # "_"
                                   /\ GetHookId(RelPath(f)) = hook_id}]


\* HookManager.__init__: _load_disabled_hooks and, with a configuration
\* store, _sync_filesystem_to_config
LoadDisabledHooks ==
    /\ dispatch.pc = "unloaded"
    /\ LET fs_disabled == FsDisabled(hook_files)
           config_disabled == ConfigDisabled(config.hooks)
       IN  IF config.present
           THEN /\ disabled_hooks' = config_disabled
                /\ hook_files' =
                      SyncDisable(SyncEnable(hook_files,
                                             fs_disabled \ config_disabled),
                                  config_disabled \ fs_disabled)
           ELSE /\ disabled_hooks' = fs_disabled
                /\ UNCHANGED hook_files
    /\ dispatch' = NoDispatch
    /\ UNCHANGED <<discovered, pending, hook_log, config, filename,
                   paste_buffer>>
    /\ UNCHANGED editor_vars

\* between dispatches: no execute_hooks or execute_all_hooks is running
RegistryQuiet == dispatch.pc \in {"idle", "discovered", "done"}

RegistryStep(op, hook_id) ==
    /\ events' = <<RegistryOp(op, hook_id)>>
    /\ discovered' = <<>>
    /\ pending' = <<>>
    /\ hook_log' = <<>>
    /\ dispatch' = NoDispatch
    /\ UNCHANGED <<lines, dirty, current_line, display_start, undo_stack,
                   redo_stack, selection_start, selection_end,
                   in_selection_mode, pc, last, seq_base, seq_ops,
                   seq_undos, filename, paste_buffer>>

\* HookManager.enable_hook
EnableHook(hook_id) ==
    /\ RegistryQuiet
    /\ config' = IF config.present
                 THEN [config EXCEPT
                          !.hooks = SetHookEnabled(@, hook_id, TRUE)]
                 ELSE config
    /\ LET found == FindHookFileById(hook_files, hook_id)
       IN  IF found = {} THEN UNCHANGED hook_files
           ELSE \E f \in found : hook_files' = RenameEnabled(hook_files, f)
    /\ disabled_hooks' = disabled_hooks \ {hook_id}
    /\ RegistryStep("enable_hook", hook_id)

\* HookManager.disable_hook
DisableHook(hook_id) ==
    /\ RegistryQuiet
    /\ config' = IF config.present
                 THEN [config EXCEPT
                          !.hooks = SetHookEnabled(@, hook_id, FALSE)]
                 ELSE config
    /\ LET found == FindHookFileById(hook_files, hook_id)
       IN  IF found = {} THEN UNCHANGED hook_files
           ELSE \E f \in found : hook_files' = RenameDisabled(hook_files, f)
    /\ disabled_hooks' = disabled_hooks \cup {hook_id}
    /\ RegistryStep("disable_hook", hook_id)

\* the hook directories and the stored "hooks" sections the registry is
\* explored with, as they are before the HookManager is constructed
RegistryDirectories ==
    {{PoolFile.dpy}, {PoolFile.a90py, PoolFile.b90sh},
     {PoolFile.hidden, PoolFile.dpy}, {PoolFile.u10sh}}

ConfigEntry(hook_id, enabled) ==
    [present |-> TRUE, hooks |-> [p \in {<<hook_id>>} |-> enabled]]

RegistryConfigs ==
    {NoConfig,
     [present |-> TRUE, hooks |-> [p \in {} |-> TRUE]],
     ConfigEntry(GetHookId(RelPath(PoolFile.dpy)), FALSE),
     ConfigEntry(GetHookId(RelPath(PoolFile.b90sh)), FALSE),
     ConfigEntry(GetHookId(RelPath(PoolFile.u10sh)), FALSE)}

\* the ids a caller passes: those of the files present (the ids the hook
\* listing shows) and the id of the last operation
RegistryIds ==
    {GetHookId(RelPath(f)) : f \in {g \in hook_files : IsHookFile(g)}}
      \cup {events[i].id : i \in 1..Len(events)}

\* one event dispatched through each entry point, and one outcome per hook
RegistrySites == {"pre_insert", "post_save"}
RegistryOutcomes == {Outcome("return", PyNone), Outcome("exit0", PyNone)}

InitRegistry ==
    /\ lines = <<>>
    /\ dirty = FALSE
    /\ EditorIdle
    /\ hook_files \in RegistryDirectories
    /\ disabled_hooks = {}
    /\ discovered = <<>>
    /\ pending = <<>>
    /\ hook_log = <<>>
    /\ dispatch = Dispatch("none", "none", "unloaded", PyNone, <<>>)
    /\ config \in RegistryConfigs
    /\ filename = NoFilename
    /\ paste_buffer = EmptyPasteBuffer

NextRegistry ==
    \/ LoadDisabledHooks
    \/ \E hook_id \in RegistryIds : EnableHook(hook_id)
    \/ \E hook_id \in RegistryIds : DisableHook(hook_id)
    \/ \E listing \in Listings(hook_files) : Discover(listing)
    \/ \E site \in RegistrySites, listing \in Listings(hook_files) :
          BeginDispatch(site, listing)
    \/ \E outcome \in RegistryOutcomes : RunHookFirst(outcome)
    \/ \E outcome \in RegistryOutcomes : RunHookAll(outcome)
    \/ EndDispatch

SpecRegistry == InitRegistry /\ [][NextRegistry]_vars

\* the stored entry of the hook, hooks[<id>], says enabled = false
ConfigEntryDisabled(hook_id) ==
    /\ config.present
    /\ <<hook_id>> \in DOMAIN config.hooks
    /\ ~config.hooks[<<hook_id>>]

\* C11 -- Config authority: with a configuration manager, a hook whose
\* configuration entry says enabled = false is reported disabled, is in no
\* discovery result and is run by neither execution method, whatever the
\* name of its file.
C11_ConfigAuthority ==
    \A f \in {g \in hook_files : IsHookFile(g)} :
        (dispatch.pc # "unloaded"
           /\ ConfigEntryDisabled(GetHookId(RelPath(f))))
          => /\ ~IsHookEnabled(GetHookId(RelPath(f)))
             /\ \A listing \in Listings(hook_files) :
                   \A i \in 1..Len(GetSortedHooks(listing)) :
                       GetSortedHooks(listing)[i] # f
             /\ \A i \in 1..Len(hook_log) : hook_log[i].file # f

\* C12 -- Enable/disable round trip: after disable(id) followed by
\* enable(id) for the id of an enabled hook file, the file has its name
\* without underscore prefix again, the hook is reported enabled and
\* discovery returns it.
C12_EnableDisableRoundTrip ==
    [][(/\ events # <<>>
        /\ events[1].op = "disable_hook"
        /\ events'[1].op = "enable_hook"
        /\ events'[1].id = events[1].id)
         => \A f \in events[1].files :
               /\ f \in hook_files'
               /\ IsHookEnabled(events[1].id)'
               /\ \A listing \in Listings(hook_files') :
                     \E i \in 1..Len(GetSortedHooks(listing)') :
                         GetSortedHooks(listing)'[i] = f]_vars


(***************************************************************************)
(* PasteBuffer (paste_buffer.py).  Lines are sequences of characters.      *)
(***************************************************************************)
\* the characters the regular expression \s and str.strip() take for
\* white space, among those of the texts explored
Whitespace == {" ", "\t"}

\* re.match(r'^(\s*)', line).group(1)
RECURSIVE LeadingWhitespace(_)
LeadingWhitespace(line) ==
    IF line = <<>> \/ Head(line) \notin Whitespace THEN <<>>
    ELSE <<Head(line)>> \o LeadingWhitespace(Tail(line))

\* line.lstrip()
LStrip(line) ==
    SubSeq(line, Len(LeadingWhitespace(line)) + 1, Len(line))

\* s.startswith(prefix)
StartsWith(s, prefix) ==
    Len(prefix) <= Len(s) /\ SubSeq(s, 1, Len(prefix)) = prefix

\* bool(line.strip())
HasContent(line) == \E i \in 1..Len(line) : line[i] \notin Whitespace

\* the inner loop of _calculate_common_prefix: the longest common prefix
RECURSIVE LongestCommonPrefix(_, _)
LongestCommonPrefix(a, b) ==
    IF a = <<>> \/ b = <<>> \/ Head(a) # Head(b) THEN <<>>
    ELSE <<Head(a)>> \o LongestCommonPrefix(Tail(a), Tail(b))

\* the loop of _calculate_common_prefix over candidate_lines[1:]
RECURSIVE NarrowPrefix(_, _)
NarrowPrefix(prefix, indents) ==
    IF indents = <<>> THEN prefix
    ELSE IF StartsWith(Head(indents), prefix)
         THEN NarrowPrefix(prefix, Tail(indents))
         ELSE LET new_prefix == LongestCommonPrefix(prefix, Head(indents))
              IN  IF new_prefix = <<>> THEN <<>>
                  ELSE NarrowPrefix(new_prefix, Tail(indents))

\* PasteBuffer._calculate_common_prefix
CalculateCommonPrefix(buffer, original_indents) ==
    LET any_content == \E i \in 1..Len(buffer) : HasContent(buffer[i])
        keep(indent) == indent # <<>> \/ any_content
        candidate_lines == SelectSeq(original_indents, keep)
    IN  IF buffer = <<>> \/ candidate_lines = <<>> THEN <<>>
        ELSE NarrowPrefix(Head(candidate_lines), Tail(candidate_lines))

\* PasteBuffer._analyze_indentation, on a buffer just assigned
AnalyzeIndentation(buffer) ==
    LET original_indents ==
            [i \in 1..Len(buffer) |-> LeadingWhitespace(buffer[i])]
    IN  [buffer |-> buffer, original_indents |-> original_indents,
         common_prefix |-> CalculateCommonPrefix(buffer, original_indents)]

\* PasteBuffer.set_text; text_lines is the text split at its line ends
SetTextResult(text_lines) ==
    IF \A i \in 1..Len(text_lines) : ~HasContent(text_lines[i])
    THEN AnalyzeIndentation(<<<<>>>>)
    ELSE AnalyzeIndentation(text_lines)

\* PasteBuffer._get_context_indent
GetContextIndent(ls, at_line) ==
    IF at_line < Len(ls) THEN LeadingWhitespace(ls[at_line + 1])
    ELSE IF at_line > 0 /\ at_line - 1 < Len(ls)
         THEN LeadingWhitespace(ls[at_line])
         ELSE <<>>

\* PasteBuffer._adjust_line_indent
AdjustLineIndent(common_prefix, line, target_indent) ==
    IF common_prefix = <<>> THEN target_indent \o LStrip(line)
    ELSE LET original_indent == LeadingWhitespace(line)
         IN  IF StartsWith(original_indent, common_prefix)
             THEN target_indent
                    \o SubSeq(original_indent, Len(common_prefix) + 1,
                              Len(original_indent))
                    \o LStrip(line)
             ELSE target_indent \o LStrip(line)

\* the texts set_text and the clipboard are explored with, split at their
\* line ends, and the buffers pasted into
PasteTexts ==
    {<<<<" ", " ", "I", "n", "d", "e", "n", "t", "e", "d">>, <<" ", " ", " ", " ", "M", "o", "r", "e">>>>,
     <<<<"a">>, <<" ", " ", "b">>>>,
     <<<<" ", "a">>>>,
     <<<<" ", " ", "a">>, <<" ", "b">>>>,
     <<<<" ", " ", "a">>, <<>>, <<" ", " ", "b">>>>,
     <<<<" ">>, <<"\t">>>>,
     <<<<"a">>, <<"\t", "b">>>>}

PasteTargets ==
    {<<<<" ", " ", "T", "a", "r", "g", "e", "t">>>>,
     <<<<"x">>>>,
     <<>>}

MaxPasted == 3          \* longest buffer a paste is explored on

\* None for the at_line argument of paste_into
NoAtLine == -1

\* the call of paste_into as `events` records it: the insertion point used,
\* adjust_indent and the number of lines pasted
PasteCall(at_line, adjust_indent, n) ==
    [at_line |-> at_line, adjust_indent |-> adjust_indent, pasted |-> n]

PasteFrame ==
    UNCHANGED <<current_line, display_start, selection_start, selection_end,
                in_selection_mode, pc, seq_base, seq_ops, seq_undos,
                config, filename>>
    /\ UNCHANGED hook_vars

\* PasteBuffer.set_text
SetText(text_lines) ==
    /\ paste_buffer' = SetTextResult(text_lines)
    /\ events' = <<>>
    /\ last' = Last("set_text", PyNone, "None")
    /\ UNCHANGED <<lines, dirty, undo_stack, redo_stack>>
    /\ PasteFrame

\* PasteBuffer.paste_into(text_buffer, at_line, adjust_indent) on the
\* TextBuffer; clipboard is what get_system_clipboard returns (<<>> for the
\* empty text).  TextBuffer.dirty is a property without a setter, so the
\* assignment after cmd.execute raises AttributeError and the call does not
\* return.
PasteInto(at_line_arg, adjust_indent, clipboard) ==
    LET loaded == paste_buffer.buffer = <<>> /\ clipboard # <<>>
        pb == IF loaded THEN SetTextResult(clipboard) ELSE paste_buffer
        at_line == IF at_line_arg = NoAtLine \/ at_line_arg = 0
                   THEN current_line ELSE at_line_arg
        context == GetContextIndent(lines, at_line)
        adjusted_lines ==
            IF adjust_indent
            THEN [i \in 1..Len(pb.buffer) |->
                     AdjustLineIndent(pb.common_prefix, pb.buffer[i], context)]
            ELSE pb.buffer
        cmd == MultiPasteInsertCommand(at_line, adjusted_lines)
    IN  /\ Len(lines) + Len(pb.buffer) <= MaxPasted
        /\ paste_buffer' = pb
        /\ IF pb.buffer = <<>>
           THEN /\ UNCHANGED <<lines, undo_stack, redo_stack>>
                /\ events' = <<PasteCall(at_line, adjust_indent, 0)>>
                /\ last' = Last("paste_into", PyNone, "0")
           ELSE /\ undo_stack' = PushCommand(undo_stack, cmd).undo
                /\ redo_stack' = PushCommand(undo_stack, cmd).redo
                /\ lines' = CmdExecute(cmd, lines)
                /\ events' = <<PasteCall(at_line, adjust_indent,
                                         Len(adjusted_lines))>>
                /\ last' = Last("paste_into", PyNone, "AttributeError")
        /\ UNCHANGED dirty
        /\ PasteFrame

InitPaste ==
    /\ lines \in PasteTargets
    /\ dirty = FALSE
    /\ current_line \in 0..Max(0, Len(lines) - 1)
    /\ display_start = 0
    /\ undo_stack = <<>>
    /\ redo_stack = <<>>
    /\ selection_start = NoLine
    /\ selection_end = NoLine
    /\ in_selection_mode = FALSE
    /\ pc = "command"
    /\ events = <<>>
    /\ last = Idle
    /\ seq_base = <<>>
    /\ seq_ops = -1
    /\ seq_undos = 0
    /\ HooksIdle
    /\ StoreIdle

NextPaste ==
    \/ \E text_lines \in PasteTexts : SetText(text_lines)
    \/ \E at_line \in {NoAtLine} \cup 0..MaxPasted,
          adjust_indent \in BOOLEAN,
          clipboard \in PasteTexts \cup {<<>>} :
          PasteInto(at_line, adjust_indent, clipboard)

SpecPaste == InitPaste /\ [][NextPaste]_vars

\* C14 -- Paste indentation: paste_into (adjusting indentation) puts at the
\* insertion point, for each line of the paste buffer, context_indent, then
\* the line's own indent without the common prefix, then the line without
\* its leading white space; context_indent is the leading white space of
\* the line at the insertion point, or of the line before it when the
\* insertion point is the end of the buffer.  Pasting "  Indented",
\* "    More" at a line indented by two spaces gives "    More" as the
\* second pasted line.
C14_PasteIndentation ==
    [][(/\ last'.op = "paste_into"
        /\ events'[1].adjust_indent
        /\ events'[1].pasted > 0
        /\ events'[1].at_line <= Len(lines))
         => LET at_line == events'[1].at_line
                context == IF at_line < Len(lines)
                           THEN LeadingWhitespace(lines[at_line + 1])
                           ELSE IF at_line > 0
                                THEN LeadingWhitespace(lines[at_line])
                                ELSE <<>>
                prefix == paste_buffer'.common_prefix
            IN  \A i \in 1..Len(paste_buffer'.buffer) :
                   LET line == paste_buffer'.buffer[i]
                       indent == LeadingWhitespace(line)
                   IN  StartsWith(indent, prefix)
                         => lines'[at_line + i]
                              = context
                                  \o SubSeq(indent, Len(prefix) + 1,
                                            Len(indent))
                                  \o LStrip(line)]_vars


(***************************************************************************)
(* UndoManager (undo_manager.py) on its own, with the capacity its         *)
(* constructor gives it by default.  Commands are told apart by the number *)
(* of the push that recorded them; seq_ops counts the pushes made so far   *)
(* and seq_undos the calls explored.                                       *)
(***************************************************************************)
\* UndoManager.__init__(max_history=120)
DefaultMaxHistory == 120

MaxCalls == 5           \* calls of the UndoManager explored from a start

\* the numbers of commands already pushed when the exploration starts: a
\* new manager, and managers one and two pushes short of their capacity
UndoStarts == {0, DefaultMaxHistory - 2, DefaultMaxHistory - 1}

UndoFrame ==
    UNCHANGED <<lines, dirty, current_line, display_start, selection_start,
                selection_end, in_selection_mode, pc, events, seq_base>>
    /\ UNCHANGED hook_vars
    /\ UNCHANGED store_vars

CallCounted == seq_undos < MaxCalls /\ seq_undos' = seq_undos + 1

\* UndoManager.push_command
UmPushCommand ==
    /\ CallCounted
    /\ seq_ops' = seq_ops + 1
    /\ undo_stack' = DequeAppendMax(undo_stack, seq_ops', DefaultMaxHistory)
    /\ redo_stack' = <<>>
    /\ last' = Last("push_command", PyNone, "None")
    /\ UndoFrame

\* UndoManager.undo
UmUndo ==
    /\ CallCounted
    /\ IF undo_stack = <<>>
       THEN /\ UNCHANGED <<undo_stack, redo_stack>>
            /\ last' = Last("undo", PyNone, "None")
       ELSE /\ undo_stack' = SubSeq(undo_stack, 1, Len(undo_stack) - 1)
            /\ redo_stack' = DequeAppendMax(redo_stack,
                                            undo_stack[Len(undo_stack)],
                                            DefaultMaxHistory)
            /\ last' = Last("undo", PyNone, "command")
    /\ UNCHANGED seq_ops
    /\ UndoFrame

\* UndoManager.redo
UmRedo ==
    /\ CallCounted
    /\ IF redo_stack = <<>>
       THEN /\ UNCHANGED <<undo_stack, redo_stack>>
            /\ last' = Last("redo", PyNone, "None")
       ELSE /\ redo_stack' = SubSeq(redo_stack, 1, Len(redo_stack) - 1)
            /\ undo_stack' = DequeAppendMax(undo_stack,
                                            redo_stack[Len(redo_stack)],
                                            DefaultMaxHistory)
            /\ last' = Last("redo", PyNone, "command")
    /\ UNCHANGED seq_ops
    /\ UndoFrame

\* UndoManager.clear
UmClear ==
    /\ CallCounted
    /\ undo_stack' = <<>>
    /\ redo_stack' = <<>>
    /\ last' = Last("clear", PyNone, "None")
    /\ UNCHANGED seq_ops
    /\ UndoFrame

\* the manager after seq_ops pushes
InitUndo ==
    /\ lines = <<>>
    /\ dirty = FALSE
    /\ current_line = 0
    /\ display_start = 0
    /\ seq_ops \in UndoStarts
    /\ undo_stack = [i \in 1..seq_ops |-> i]
    /\ redo_stack = <<>>
    /\ selection_start = NoLine
    /\ selection_end = NoLine
    /\ in_selection_mode = FALSE
    /\ pc = "command"
    /\ events = <<>>
    /\ last = Idle
    /\ seq_base = <<>>
    /\ seq_undos = 0
    /\ HooksIdle
    /\ StoreIdle

NextUndo == UmPushCommand \/ UmUndo \/ UmRedo \/ UmClear

SpecUndo == InitUndo /\ [][NextUndo]_vars

\* C15 -- push appends the command to the undo stack, dropping the oldest
\* entry when the stack already holds 120 commands, and empties the redo
\* stack; in every reachable state each stack holds at most 120 commands.
C15_PushBoundedHistory ==
    /\ [](Len(undo_stack) <= 120 /\ Len(redo_stack) <= 120)
    /\ [][last'.op = "push_command"
            => /\ undo_stack' =
                     (IF Len(undo_stack) = 120 THEN Tail(undo_stack)
                      ELSE undo_stack) \o <<seq_ops'>>
               /\ redo_stack' = <<>>]_vars

\* a push on a stack of 120 commands has dropped the oldest one
C15_Witness ==
    /\ last.op = "push_command"
    /\ Len(undo_stack) = 120
    /\ undo_stack[1] = 2
    /\ undo_stack[120] = 121


(***************************************************************************)
(* BufferManager.load_file and save (buffer_manager.py).  What the hooks   *)
(* return, what the file holds and whether it can be opened are inputs of  *)
(* the call.                                                               *)
(***************************************************************************)
\* the value a hook result carries under "content": absent, None, a number,
\* a string, a list of lines, or an iterable without a length (a generator
\* of lines); v holds the lines (of a string: the string split at "\n")
Content(kind, v) == [kind |-> kind, v |-> v]
NoContent == Content("absent", <<>>)

\* what execute_hooks returns to load_file and save: None, a number, a
\* string, or a map that may hold "content"
FileRes(t, content) == [t |-> t, content |-> content]
FileNone == FileRes("none", NoContent)

UnsizedContents ==
    {Content("none", <<>>), Content("int", <<>>), Content("iter", <<"a">>)}
ListContents == {Content("lines", <<"a", "">>), Content("lines", <<>>)}
StrContents == {Content("str", <<"a", "">>), Content("str", <<"">>)}

\* the results of pre_load; of process_content and pre_save
PreLoadResults ==
    {FileNone, FileRes("num", NoContent)}
      \cup {FileRes("str", c) : c \in StrContents}
      \cup {FileRes("dict", c) :
              c \in {NoContent} \cup UnsizedContents \cup ListContents
                      \cup StrContents}
ContentResults ==
    {FileNone, FileRes("num", NoContent), FileRes("str", Content("str", <<"a">>))}
      \cup {FileRes("dict", c) :
              c \in {NoContent} \cup UnsizedContents \cup ListContents}

\* bool(result) and `"content" in result`; the latter raises TypeError on a
\* number, and the strings explored do not contain "content"
FileResTruthy(r) ==
    CASE r.t = "none" -> FALSE
      [] r.t = "num" -> TRUE
      [] r.t = "str" -> r.content.v # <<"">>
      [] r.t = "dict" -> r.content # NoContent
HasContentKey(r) == r.t = "dict" /\ r.content # NoContent
ContentTestRaises(r) == r.t = "num"

\* len(x) raises TypeError
Unsized(c) == c.kind \in {"none", "int", "iter"}
\* "\n".join(x) raises TypeError
Unjoinable(c) == c.kind \in {"none", "int"}

\* self.lines once it is bound to a value that is not a list
ObjectAsLines(c) ==
    CASE c.kind = "none" -> <<"<None>">>
      [] c.kind = "int" -> <<"<int>">>
      [] c.kind = "iter" -> <<"<generator>">>
      [] OTHER -> c.v
NotLists == {<<"<None>">>, <<"<int>">>, <<"<generator>">>}

\* what open(filename) and the read give load_file: an exception (missing
\* file, decode error) or the lines of the file
ReadError == Content("error", <<>>)
FileReads ==
    {ReadError, Content("lines", <<>>), Content("lines", <<"a">>),
     Content("lines", <<"", "a">>)}

FileNames == {"f.txt", "g.txt"}

FileFrame ==
    UNCHANGED <<current_line, display_start, undo_stack, redo_stack,
                selection_start, selection_end, in_selection_mode, pc,
                seq_base, seq_ops, seq_undos, config, paste_buffer>>
    /\ UNCHANGED hook_vars

\* the outcome of a call: the fields of the BufferManager, the value
\* returned, and the hooks fired and file accesses made, in order
FileResult(ls, name, d, ret, evs) ==
    [lines |-> ls, filename |-> name, dirty |-> d, ret |-> ret,
     events |-> evs]

\* BufferManager.load_file
LoadFileResult(ls, name, d, new_name, pre_load_result, read, content_result) ==
    LET hook_content ==
            IF pre_load_result.t = "dict" /\ HasContentKey(pre_load_result)
            THEN pre_load_result.content
            ELSE IF pre_load_result.t = "str" THEN pre_load_result.content
                 ELSE Content("none", <<>>)
        from_file == hook_content.kind = "none"
                     \/ (hook_content.kind = "str" /\ hook_content.v = <<"">>)
        content == IF from_file THEN read
                   ELSE IF hook_content.kind = "str"
                        THEN Content("lines", hook_content.v)
                        ELSE hook_content
        new_lines == IF /\ FileResTruthy(content_result)
                        /\ content_result.t = "dict"
                        /\ HasContentKey(content_result)
                     THEN content_result.content
                     ELSE content
    IN  IF from_file /\ read = ReadError
        THEN FileResult(ls, name, d, "False", <<"pre_load", "open", "error">>)
        ELSE IF Unsized(new_lines)
             THEN FileResult(ObjectAsLines(new_lines), new_name, FALSE,
                             "False",
                             (IF from_file THEN <<"pre_load", "open">>
                              ELSE <<"pre_load">>)
                               \o <<"process_content", "error">>)
             ELSE FileResult(new_lines.v, new_name, FALSE, "True",
                             (IF from_file THEN <<"pre_load", "open">>
                              ELSE <<"pre_load">>)
                               \o <<"process_content", "post_load">>)

\* BufferManager.save; can_open is whether open(self.filename, "w") succeeds
SaveResult(ls, name, d, pre_save_result, content_result, can_open) ==
    LET failed(evs) == FileResult(ls, name, d, "False", evs \o <<"error">>)
        after_pre ==
            IF FileResTruthy(pre_save_result) /\ HasContentKey(pre_save_result)
            THEN pre_save_result.content ELSE Content("lines", ls)
        lines_to_save ==
            IF FileResTruthy(content_result) /\ HasContentKey(content_result)
            THEN content_result.content ELSE after_pre
    IN  IF name = NoFilename
        THEN FileResult(ls, name, d, "False", <<>>)
        ELSE IF FileResTruthy(pre_save_result)
                  /\ ContentTestRaises(pre_save_result)
        THEN failed(<<"pre_save">>)
        ELSE IF FileResTruthy(content_result)
                  /\ ContentTestRaises(content_result)
        THEN failed(<<"pre_save", "process_content">>)
        ELSE IF ~can_open
        THEN failed(<<"pre_save", "process_content", "open">>)
        ELSE IF Unjoinable(lines_to_save)
        THEN failed(<<"pre_save", "process_content", "open">>)
        ELSE IF Unsized(lines_to_save)
        THEN FileResult(ls, name, FALSE, "False",
                        <<"pre_save", "process_content", "open", "write",
                          "error">>)
        ELSE FileResult(ls, name, FALSE, "True",
                        <<"pre_save", "process_content", "open", "write",
                          "post_save">>)

FileCall(op, r) ==
    /\ lines' = r.lines
    /\ filename' = r.filename
    /\ dirty' = r.dirty
    /\ events' = r.events
    /\ last' = Last(op, PyNone, r.ret)
    /\ FileFrame

LoadFile(new_name, pre_load_result, read, content_result) ==
    FileCall("load_file",
             LoadFileResult(lines, filename, dirty, new_name, pre_load_result,
                            read, content_result))

Save(pre_save_result, content_result, can_open) ==
    FileCall("save",
             SaveResult(lines, filename, dirty, pre_save_result,
                        content_result, can_open))

\* TextBuffer.filename = value
SetFilename(value) ==
    /\ filename' = value
    /\ events' = <<>>
    /\ last' = Last("set_filename", PyNone, "None")
    /\ UNCHANGED <<lines, dirty>>
    /\ FileFrame

\* BufferManager.set_line, on a buffer that is a list
FileSetLine(index, text) ==
    /\ lines \notin NotLists
    /\ LET r == BufSetLine(lines, dirty, index, text, PyNone)
       IN  /\ lines' = r.lines
           /\ dirty' = r.dirty
           /\ events' = r.events
           /\ last' = Last("BufferManager.set_line", PyNone, r.ret.s)
    /\ UNCHANGED filename
    /\ FileFrame

\* BufferManager.__init__
InitFile ==
    /\ lines = <<"">>
    /\ dirty = FALSE
    /\ EditorIdle
    /\ HooksIdle
    /\ StoreIdle

NextFile ==
    \/ \E new_name \in FileNames, pre \in PreLoadResults, read \in FileReads,
          content_result \in ContentResults :
          LoadFile(new_name, pre, read, content_result)
    \/ \E pre \in ContentResults, content_result \in ContentResults,
          can_open \in BOOLEAN :
          Save(pre, content_result, can_open)
    \/ \E value \in FileNames : SetFilename(value)
    \/ \E index \in Indices, text \in Texts : FileSetLine(index, text)

SpecFile == InitFile /\ [][NextFile]_vars

\* C16 -- a load_file that fails returns False and leaves the lines, the
\* file name and the dirty flag as they were before the call.
C16_LoadFailureLeavesState ==
    [][(last'.op = "load_file" /\ last'.ret = "False")
         => UNCHANGED <<lines, filename, dirty>>]_vars

\* C17 -- save without a file name returns False, fires no hook and writes
\* nothing; a save whose write did not succeed returns False and leaves the
\* dirty flag and the lines as they were; a save whose write succeeded
\* returns True with the dirty flag cleared.
C17_SaveClearsDirtyOnSuccess ==
    [][last'.op = "save"
         => LET written == \E i \in 1..Len(events') : events'[i] = "write"
            IN  /\ filename = NoFilename
                  => /\ last'.ret = "False"
                     /\ events' = <<>>
                     /\ UNCHANGED <<lines, dirty>>
                /\ ~written
                  => /\ last'.ret = "False"
                     /\ UNCHANGED <<lines, dirty>>
                /\ written => (last'.ret = "True" /\ ~dirty')
                /\ UNCHANGED <<lines, filename>>]_vars

(***************************************************************************)
(* The edit loop and its quit flow (text_buffer.py, edit_interactive and   *)
(* _handle_quit).  pc = "confirm_quit" while _handle_quit waits for the    *)
(* answer to "Save changes? (y/n)", "terminated" once edit_interactive has *)
(* returned, "crashed" once an exception has left it.  The finally clause  *)
(* of edit_interactive fires session_end on either way out.                *)
(***************************************************************************)
\* a number returned by a hook, by its decimal text
Num(s) == PyVal("num", s, -1, FALSE, NoText, -1)

\* `key in v` raises TypeError: v is truthy and is not a container
MembershipRaises(v) == v.t = "num" /\ v.s # "0"

\* results of the pre_insert dispatch the loop is explored with
SessionPreResults == PreResults \cup {Num("5")}

\* what the user types at the prompt of _handle_quit
QuitInputs == {"y", "Y", "n", "N", "x", ""}

\* str.lower() on QuitInputs
Lower(s) == IF s = "Y" THEN "y" ELSE IF s = "N" THEN "n" ELSE s

\* the file names a session edits under: none yet, or a path
SessionFilenames == {NoFilename, "f.txt"}

SessionFrame ==
    /\ UNCHANGED <<undo_stack, redo_stack, selection_start, selection_end,
                   in_selection_mode, seq_base, seq_ops, seq_undos, config,
                   paste_buffer>>
    /\ UNCHANGED hook_vars

\* BufferManager.save returned True: it got as far as post_save
SaveSucceeded(evs) == \E i \in 1..Len(evs) : evs[i] = "post_save"

\* TextBuffer.save as the loop calls it: BufferManager.save, then display()
SessionSave(can_open) ==
    LET r == SaveResult(lines, filename, dirty, FileNone, FileNone, can_open)
    IN  [lines |-> r.lines, filename |-> r.filename, dirty |-> r.dirty,
         ret |-> r.ret, events |-> r.events,
         nav |-> Display(CurNav, Len(r.lines))]

\* "i": TextBuffer.insert_line; the membership tests of
\* BufferManager.insert_line on the pre_insert result are not guarded, and
\* neither insert_line nor edit_interactive catches what they raise
InsertKey(pre_insert_result) ==
    IF MembershipRaises(pre_insert_result)
    THEN /\ pc = "command"
         /\ pc' = "crashed"
         /\ events' = <<"pre_insert", "session_end">>
         /\ last' = Last("insert_line", pre_insert_result, "TypeError")
         /\ UNCHANGED <<lines, dirty, current_line, display_start, filename>>
         /\ SessionFrame
    ELSE InsertLine(pre_insert_result)

\* "w": save, a status message when it failed, and back to the loop
WriteKey(can_open) ==
    LET r == SessionSave(can_open)
    IN  /\ pc = "command"
        /\ pc' = "display"
        /\ lines' = r.lines
        /\ filename' = r.filename
        /\ dirty' = r.dirty
        /\ SetNav(r.nav)
        /\ events' = r.events
        /\ last' = Last("save", PyNone, r.ret)
        /\ SessionFrame

\* a key that is no command: a message, and back to the loop
InvalidKey ==
    /\ Turn
    /\ events' = <<>>
    /\ last' = Last("invalid_key", PyNone, "None")
    /\ UNCHANGED <<lines, dirty, current_line, display_start, undo_stack,
                   redo_stack, selection_start, selection_end,
                   in_selection_mode, seq_base, seq_ops, seq_undos>>

\* "q" or Esc: _handle_quit up to its prompt
QuitKey ==
    /\ pc = "command"
    /\ IF ~dirty
       THEN /\ pc' = "terminated"
            /\ events' = <<"session_end">>
            /\ last' = Last("quit", PyNone, "None")
       ELSE /\ pc' = "confirm_quit"
            /\ events' = <<>>
            /\ last' = Last("quit", PyNone, "<input>")
    /\ UNCHANGED <<lines, dirty, current_line, display_start, filename>>
    /\ SessionFrame

\* the answer to "Save changes? (y/n)"; last.pre is the answer lowered,
\* last.ret the value edit_interactive returns
QuitAnswer(typed, can_open) ==
    LET choice == Lower(typed)
        r == SessionSave(can_open)
    IN  /\ pc = "confirm_quit"
        /\ IF choice = "y"
           THEN /\ pc' = "terminated"
                /\ lines' = r.lines
                /\ filename' = r.filename
                /\ dirty' = r.dirty
                /\ SetNav(r.nav)
                /\ events' = r.events \o <<"session_end">>
                /\ last' = Last("quit_answer", Str(choice),
                                IF r.ret = "True" THEN "True" ELSE "None")
           ELSE IF choice = "n"
           THEN /\ pc' = "terminated"
                /\ events' = <<"session_end">>
                /\ last' = Last("quit_answer", Str(choice), "False")
                /\ UNCHANGED <<lines, dirty, current_line, display_start,
                               filename>>
           ELSE /\ pc' = "confirm_quit"
                /\ events' = <<>>
                /\ last' = Last("quit_answer", Str(choice), "<input>")
                /\ UNCHANGED <<lines, dirty, current_line, display_start,
                               filename>>
        /\ SessionFrame

InitSession ==
    /\ EditorInit
    /\ seq_base = <<>>
    /\ seq_ops = -1
    /\ seq_undos = 0
    /\ HooksIdle
    /\ config = NoConfig
    /\ filename \in SessionFilenames
    /\ paste_buffer = EmptyPasteBuffer

NextSession ==
    \/ DisplayStep
    \/ \E pre \in SessionPreResults : InsertKey(pre)
    \/ \E can_open \in BOOLEAN : WriteKey(can_open)
    \/ InvalidKey
    \/ QuitKey
    \/ \E typed \in QuitInputs, can_open \in BOOLEAN :
          QuitAnswer(typed, can_open)

SpecSession == InitSession /\ [][NextSession]_vars

\* C18 -- Quit flow: the edit loop terminates only on quit with a clean
\* buffer (at once, without a prompt), on quit answered no, or on quit
\* answered yes followed by a successful save; quit on a dirty buffer
\* prompts; when the save after yes fails the session does not terminate
\* and keeps its unsaved buffer; any other answer prompts again.
C18_QuitFlow ==
    [][/\ (pc # "terminated" /\ pc' = "terminated")
            => \/ pc = "command" /\ ~dirty /\ last'.op = "quit"
               \/ pc = "confirm_quit" /\ last'.pre = Str("n")
               \/ /\ pc = "confirm_quit"
                  /\ last'.pre = Str("y")
                  /\ SaveSucceeded(events')
       /\ last'.op = "quit"
            => pc' = (IF dirty THEN "confirm_quit" ELSE "terminated")
       /\ last'.op = "quit_answer"
            => IF last'.pre = Str("n") THEN pc' = "terminated"
               ELSE IF last'.pre = Str("y")
               THEN IF SaveSucceeded(events') THEN pc' = "terminated"
                    ELSE /\ pc' \in {"display", "command"}
                         /\ UNCHANGED <<lines, dirty>>
               ELSE pc' = "confirm_quit" /\ UNCHANGED <<lines, dirty>>]_vars

\* C20 -- No exception reaches the edit loop: whatever a hook returns, after
\* every command the loop is back at its prompt, is in the quit flow, or
\* has terminated through it; it has never crashed.
C20_NoExceptionEscapes == pc # "crashed"

(***************************************************************************)
(* Further properties of the editing session.                              *)
(***************************************************************************)
\* C21 -- Redo only right after undo: every operation other than undo and
\* redo that changes the line sequence (deleting an empty line and
\* overwrite-paste past the buffer end included) leaves the redo stack
\* empty, so a non-empty redo stack means the buffer was not changed since
\* the most recent undo.
C21_MutationClearsRedo ==
    [][(lines' # lines /\ last'.op \notin {"undo", "redo"})
         => redo_stack' = <<>>]_vars

\* "x" occurs in the event list evs
Fired(evs, x) == \E i \in 1..Len(evs) : evs[i] = x

\* C22 -- pre_paste consulted and honoured: every paste of a non-empty
\* clipboard (insert or overwrite, one line or several) consults the
\* pre_paste hook, and when the hook returns cancel the paste is aborted
\* with the buffer, the undo stack and the dirty flag unchanged.
C22_PrePasteCancelAborts ==
    [][\A mode \in {"insert", "overwrite"},
          clip \in SingleClips \cup MultiClips,
          pre_paste \in PreResults, pre_insert \in PreResults :
          PasteLine(mode, clip, pre_paste, pre_insert)
            => /\ Fired(events', "pre_paste")
               /\ ContainsCancel(pre_paste)
                    => UNCHANGED <<lines, undo_stack, dirty>>]_vars

\* C23 -- Cancelled delete and edit: when the pre_delete dispatch of
\* delete_line, or the pre_edit dispatch of set_line, returns cancel for a
\* line of the buffer, the call leaves the lines and the dirty flag as they
\* were and fires no post hook; delete_line returns the empty string and
\* set_line the old text of the line.
C23_CancelledDeleteAndEdit ==
    [][ContainsCancel(last'.pre)
         => \A index \in 0..(Len(lines) - 1) :
               /\ BufferDeleteLine(index, last'.pre)
                    => /\ UNCHANGED <<lines, dirty>>
                       /\ ~Fired(events', "post_delete")
                       /\ last'.ret = ""
               /\ \A text \in Texts :
                    BufferSetLine(index, text, last'.pre)
                      => /\ UNCHANGED <<lines, dirty>>
                         /\ ~Fired(events', "post_edit")
                         /\ last'.ret = At(lines, index)]_vars

\* a cancelled set_line on a clean buffer returned the old text of its line,
\* after a call that found a line to work on
C23_Witness ==
    /\ last.op = "BufferManager.set_line"
    /\ ContainsCancel(last.pre)
    /\ events = <<"pre_edit">>
    /\ last.ret = "a"
    /\ lines = <<"", "a">>
    /\ ~dirty

(***************************************************************************)
(* The coordinator's insert and multi-line paste, statement by statement   *)
(* (text_buffer.py insert_line and paste_line, buffer_manager.py           *)
(* insert_line).  pc follows the handler: "ins_pre" after the pre_insert   *)
(* dispatch, "ins_mut" after lines.insert, "ins_ret" once                  *)
(* BufferManager.insert_line has returned (last.ret is what it returned),  *)
(* "paste_pushed" after push_undo_command of the multi-line paste.  events *)
(* lists, in order, the hooks fired by the command and its two internal    *)
(* steps: "mutate" (the buffer was changed) and "push" (the EditCommand    *)
(* was put on the undo stack).                                             *)
(***************************************************************************)
OrderFrame ==
    /\ UNCHANGED <<selection_start, selection_end, in_selection_mode,
                   seq_base, seq_ops, seq_undos>>
    /\ UNCHANGED hook_vars
    /\ UNCHANGED store_vars

\* BufferManager.insert_line: the pre_insert dispatch
OrderInsertPre(pre_insert_result) ==
    /\ pc = "command"
    /\ Len(lines) < MaxLines
    /\ pc' = "ins_pre"
    /\ events' = <<"pre_insert">>
    /\ last' = Last("insert_line", pre_insert_result, "")
    /\ UNCHANGED <<lines, dirty, current_line, display_start, undo_stack,
                   redo_stack>>
    /\ OrderFrame

\* BufferManager.insert_line: the rewrite, the cancel test, lines.insert
OrderInsertMutate ==
    LET pre == last.pre
        text_to_insert == IF Truthy(pre) /\ HasKey(pre, "text")
                          THEN pre.text ELSE ""
    IN  /\ pc = "ins_pre"
        /\ last' = [last EXCEPT !.ret = text_to_insert]
        /\ IF Truthy(pre) /\ HasKey(pre, "cancel")
           THEN /\ pc' = "ins_ret"
                /\ UNCHANGED <<lines, dirty, events>>
           ELSE /\ pc' = "ins_mut"
                /\ lines' = ListInsert(lines, current_line + 1, text_to_insert)
                /\ dirty' = TRUE
                /\ events' = Append(events, "mutate")
        /\ UNCHANGED <<current_line, display_start, undo_stack, redo_stack>>
        /\ OrderFrame

\* BufferManager.insert_line: the post_insert dispatch and the return
OrderInsertPost ==
    /\ pc = "ins_mut"
    /\ pc' = "ins_ret"
    /\ events' = Append(events, "post_insert")
    /\ UNCHANGED <<lines, dirty, current_line, display_start, undo_stack,
                   redo_stack, last>>
    /\ OrderFrame

\* TextBuffer.insert_line after the call: the command and the cursor
OrderInsertPush ==
    LET cl == current_line
    IN  /\ pc = "ins_ret"
        /\ pc' = "display"
        /\ undo_stack' =
               PushCommand(undo_stack, InsertLineCommand(cl + 1, last.ret)).undo
        /\ redo_stack' = <<>>
        /\ SetNav(SetCurrentLine(CurNav, cl + 1, Len(lines)))
        /\ events' = Append(events, "push")
        /\ UNCHANGED <<lines, dirty, last>>
        /\ OrderFrame

\* TextBuffer.paste_line("insert"), several lines: the command is built and
\* pushed
OrderPastePush(clip) ==
    /\ pc = "command"
    /\ Len(lines) + Len(clip) <= MaxLines
    /\ pc' = "paste_pushed"
    /\ undo_stack' =
           PushCommand(undo_stack,
                       MultiPasteInsertCommand(current_line, clip)).undo
    /\ redo_stack' = <<>>
    /\ events' = <<"push">>
    /\ last' = Last("paste_line", PyNone, "")
    /\ UNCHANGED <<lines, dirty, current_line, display_start>>
    /\ OrderFrame

\* TextBuffer.paste_line("insert"), several lines: cmd.execute, the cursor,
\* the dirty flag
OrderPasteExecute ==
    LET cmd == undo_stack[Len(undo_stack)]
        pasted == CmdExecute(cmd, lines)
    IN  /\ pc = "paste_pushed"
        /\ pc' = "display"
        /\ lines' = pasted
        /\ dirty' = TRUE
        /\ SetNav(SetCurrentLine(CurNav, current_line, Len(pasted)))
        /\ events' = Append(events, "mutate")
        /\ last' = [last EXCEPT !.ret = "True"]
        /\ UNCHANGED <<undo_stack, redo_stack>>
        /\ OrderFrame

NextOrder ==
    \/ DisplayStep
    \/ \E pre \in PreResults : OrderInsertPre(pre)
    \/ OrderInsertMutate
    \/ OrderInsertPost
    \/ OrderInsertPush
    \/ \E clip \in MultiClips : OrderPastePush(clip)
    \/ OrderPasteExecute
    \/ Undo
    \/ Redo

SpecOrder == Init /\ [][NextOrder]_vars

IsPreEvent(x) == x \in {"pre_insert", "pre_paste"}
IsPostEvent(x) == x \in {"post_insert", "post_paste"}

\* C24 -- Order within a mutating command: the pre-hooks run, then the
\* buffer is changed, then the EditCommand is pushed onto the undo stack,
\* then the post-hooks run; no post-hook runs before the command is on the
\* undo stack and no command is pushed before its change is applied.
C24_HookCommandOrder ==
    \A i \in 1..Len(events) :
       /\ IsPostEvent(events[i]) => \E k \in 1..(i - 1) : events[k] = "push"
       /\ events[i] = "push" => \E k \in 1..(i - 1) : events[k] = "mutate"
       /\ events[i] = "mutate"
            => \A k \in 1..Len(events) : IsPreEvent(events[k]) => k < i

\* the result of a pre-hook dispatch is a rewrite: a map with "text" and
\* without "cancel"
IsRewrite(v) == v.t = "dict" /\ v.text # NoText /\ ~v.cancel

\* C25 -- Rewritten insert: when the pre_insert dispatch returns a rewrite,
\* the rewritten text is what is inserted after the cursor line, what
\* BufferManager.insert_line returns and what the InsertLineCommand on the
\* undo stack records; the redo of an InsertLineCommand inserts the text the
\* command records, so undo followed by redo brings the rewritten text back.
C25_RewrittenInsert ==
    [][/\ (last'.op = "insert_line" /\ IsRewrite(last'.pre))
            => LET t == last'.pre.text
                   at == current_line + 1
               IN  /\ lines' = ListInsert(lines, at, t)
                   /\ BufInsertLine(lines, dirty, at, "", last'.pre).ret
                        = Str(t)
                   /\ undo_stack' # <<>>
                   /\ undo_stack'[Len(undo_stack')] = InsertLineCommand(at, t)
       /\ (last'.op = "redo" /\ last'.ret = "InsertLine")
            => LET c == redo_stack[Len(redo_stack)]
               IN  /\ lines' = ListInsert(lines, c.line_num, c.text)
                   /\ undo_stack'[Len(undo_stack')] = c
                   /\ (seq_ops = 1 /\ seq_undos = 1 /\ lines = seq_base)
                        => lines' = ListInsert(seq_base, c.line_num, c.text)
      ]_vars

\* an insert whose pre_insert dispatch rewrote the text to "a"
C25_Witness ==
    /\ last.op = "insert_line"
    /\ IsRewrite(last.pre)
    /\ lines = <<"", "a">>
    /\ undo_stack = <<InsertLineCommand(1, "a")>>
    /\ seq_ops = 1

(***************************************************************************)
(* Hook dispatch with hooks that do not return.  A subprocess hook that    *)
(* runs on is killed by subprocess.run(timeout=30): its outcome is         *)
(* "timeout".  An in-process hook is a plain call of module.main(context): *)
(* when main does not return, _execute_hook does not either, and the       *)
(* dispatch stays at pc = "in_hook".                                       *)
(***************************************************************************)
\* _execute_hook calls module.main(context) of an in-process hook, and main
\* blocks (an endless loop, a read that never completes)
HookBlocks ==
    /\ dispatch.pc = "running"
    /\ pending # <<>>
    /\ PathSuffix(Head(pending)) = PySuffix
    /\ hook_log' = Append(hook_log,
                          LogEntry(Head(pending), Outcome("blocks", PyNone),
                                   [raised |-> FALSE, value |-> PyNone]))
    /\ dispatch' = [dispatch EXCEPT !.pc = "in_hook"]
    /\ UNCHANGED <<hook_files, disabled_hooks, discovered, pending>>
    /\ UNCHANGED editor_vars
    /\ UNCHANGED store_vars

\* the directories, events and hook outcomes the termination of a dispatch
\* is explored with
TimeoutDirectories ==
    {{PoolFile.a90py, PoolFile.u10sh}, {PoolFile.dpy, PoolFile.b90sh},
     {PoolFile.a90py, PoolFile.dpy, PoolFile.u10sh}}
TimeoutSites == {"pre_insert", "post_save"}
TimeoutOutcomes ==
    {Outcome("return", PyNone), Outcome("return", Str("ok")),
     Outcome("raise", PyNone)}
      \cup {Outcome(k, PyNone) : k \in ScriptOutcomes}

InitTimeout ==
    /\ lines = <<>>
    /\ dirty = FALSE
    /\ EditorIdle
    /\ hook_files \in TimeoutDirectories
    /\ disabled_hooks = {}
    /\ discovered = <<>>
    /\ pending = <<>>
    /\ hook_log = <<>>
    /\ dispatch = NoDispatch
    /\ StoreIdle

NextTimeout ==
    \/ \E site \in TimeoutSites, listing \in Listings(hook_files) :
          BeginDispatch(site, listing)
    \/ \E outcome \in TimeoutOutcomes : RunHookFirst(outcome)
    \/ \E outcome \in TimeoutOutcomes : RunHookAll(outcome)
    \/ EndDispatch
    \/ HookBlocks

\* the interpreter keeps running the loop of a dispatch that has begun: a
\* hook whose run can come to an end is run to its end, and a loop out of
\* hooks returns
SpecTimeout ==
    /\ InitTimeout
    /\ [][NextTimeout]_vars
    /\ WF_vars(\E outcome \in TimeoutOutcomes : RunHookFirst(outcome))
    /\ WF_vars(\E outcome \in TimeoutOutcomes : RunHookAll(outcome))
    /\ WF_vars(EndDispatch)

\* C26 -- Dispatch terminates: every hook dispatch that has begun comes to
\* its end, whatever its hooks do, in-process or as subprocesses.
C26_DispatchTerminates ==
    (dispatch.pc = "running") ~> (dispatch.pc = "done")

(***************************************************************************)
(* Guarded operations, called directly: BufferManager.delete_line and      *)
(* set_line with any index, TextBuffer.undo, redo, copy_selection and      *)
(* delete_selected_lines in any state of the stacks and of the selection.  *)
(***************************************************************************)
\* TextBuffer.delete_selected_lines, with or without a selection
CallDeleteSelectedLines ==
    /\ Turn
    /\ IF ~HasSelection
       THEN /\ UNCHANGED <<lines, dirty, undo_stack, redo_stack,
                           selection_start, selection_end, in_selection_mode>>
            /\ SetNav(CurNav)
            /\ last' = Last("delete_selected_lines", PyNone, "False")
       ELSE DeleteSelectedLines
    /\ events' = <<>>
    /\ TrackOp

\* TextBuffer.copy_selection, with or without a selection; copied is what
\* PasteBuffer.copy_to_clipboard returns
CallCopySelection(copied) ==
    /\ Turn
    /\ IF ~HasSelection \/ lines = <<>>
       THEN /\ UNCHANGED <<selection_start, selection_end, in_selection_mode>>
            /\ SetNav(CurNav)
            /\ events' = <<>>
            /\ last' = Last("copy_selection", PyNone, "False")
       ELSE /\ events' = <<"process_selection">>
            /\ IF copied
               THEN /\ selection_start' = NoLine
                    /\ selection_end' = NoLine
                    /\ in_selection_mode' = FALSE
                    /\ SetNav(SetCurrentLine(CurNav, current_line, Len(lines)))
                    /\ last' = Last("copy_selection", PyNone, "True")
               ELSE /\ UNCHANGED <<selection_start, selection_end,
                                   in_selection_mode>>
                    /\ SetNav(CurNav)
                    /\ last' = Last("copy_selection", PyNone, "False")
    /\ UNCHANGED <<lines, dirty, undo_stack, redo_stack>>
    /\ TrackNone

\* BufferManager.delete_line / set_line called while the loop awaits a key
GuardedDeleteLine(index, pre_delete_result) ==
    pc = "command" /\ BufferDeleteLine(index, pre_delete_result)
GuardedSetLine(index, text, pre_edit_result) ==
    pc = "command" /\ BufferSetLine(index, text, pre_edit_result)

NextGuarded ==
    \/ DisplayStep
    \/ InsertLine(PyNone)
    \/ \E pre \in PreResults : SelectKey(pre)
    \/ Undo
    \/ Redo
    \/ CallDeleteSelectedLines
    \/ \E copied \in BOOLEAN : CallCopySelection(copied)
    \/ \E index \in Indices, pre \in PreResults : GuardedDeleteLine(index, pre)
    \/ \E index \in Indices, pre \in PreResults :
          GuardedSetLine(index, "a", pre)

SpecGuarded == Init /\ [][NextGuarded]_vars

OutOfRange(index, ls) == ~(0 <= index /\ index < Len(ls))

\* C27 -- Guarded operations are no-ops: delete_line and set_line with an
\* index that is no line of the buffer, undo with an empty undo stack, redo
\* with an empty redo stack, and copy_selection and delete_selected_lines
\* without a selection return normally and leave the lines, the dirty flag
\* and both history stacks as they were.
C27_GuardedNoOps ==
    [][/\ last'.op \in {"BufferManager.delete_line", "BufferManager.set_line"}
            => \A index \in Indices :
                  (OutOfRange(index, lines)
                     /\ \/ GuardedDeleteLine(index, last'.pre)
                        \/ GuardedSetLine(index, "a", last'.pre))
                    => /\ UNCHANGED <<lines, dirty, undo_stack, redo_stack>>
                       /\ last'.ret = ""
                       /\ events' = <<>>
       /\ (last'.op = "undo" /\ undo_stack = <<>>)
            => /\ UNCHANGED <<lines, dirty, undo_stack, redo_stack>>
               /\ last'.ret = "nothing"
       /\ (last'.op = "redo" /\ redo_stack = <<>>)
            => /\ UNCHANGED <<lines, dirty, undo_stack, redo_stack>>
               /\ last'.ret = "nothing"
       /\ (last'.op \in {"copy_selection", "delete_selected_lines"}
             /\ ~HasSelection)
            => /\ UNCHANGED <<lines, dirty, undo_stack, redo_stack>>
               /\ last'.ret = "False"]_vars

\* redo was called with an empty redo stack on a changed buffer that has a
\* command to undo
C27_Witness ==
    /\ last.op = "redo"
    /\ last.ret = "nothing"
    /\ redo_stack = <<>>
    /\ undo_stack # <<>>
    /\ dirty
    /\ Len(lines) = 2

(***************************************************************************)
(* The edit prompt with its normalisation of the typed text                *)
(* (text_buffer.py, edit_current_line).  A line may carry a trailing       *)
(* carriage return or newline when a pre_insert hook rewrote the inserted  *)
(* text; the prompt is pre-populated with the old text as it is.           *)
(***************************************************************************)
\* texts the prompt can return: a plain text, or one ending in "\r" or "\n"
TypedTexts == {"", "a", "a\r", "a\n"}

\* str.rstrip("\n\r") on the texts above
RStrip(s) ==
    CASE s \in {"a\r", "a\n"} -> "a"
      [] s \in {"\r", "\n"} -> ""
      [] OTHER -> s

\* str.endswith("\n")
EndsWithNewline(s) == s \in {"\n", "a\n"}

\* s + "\n" on the stripped texts
AppendNewline(s) == IF s = "" THEN "\n" ELSE "a\n"

\* edit_current_line: "Remove any trailing newlines from input() and
\* preserve the original newline status"
NormaliseTyped(new_text, old_text) ==
    LET stripped == RStrip(new_text)
    IN  IF EndsWithNewline(old_text) THEN AppendNewline(stripped)
        ELSE stripped

\* TextBuffer.edit_current_line with the text the prompt returned
EditTyped(typed) ==
    LET old_text == IF Len(lines) = 0 THEN ""
                    ELSE GetLine(lines, current_line)
    IN  EditCurrentLine(NormaliseTyped(typed, old_text))

\* pre_insert results: no hook, or a rewrite to a text ending in "\r" or "\n"
EditPreResults ==
    {PyNone, Dict(-1, FALSE, "a\r", -1), Dict(-1, FALSE, "a\n", -1)}

NextEdit ==
    \/ DisplayStep
    \/ \E pre \in EditPreResults : InsertLine(pre)
    \/ \E typed \in TypedTexts : EditTyped(typed)
    \/ Undo
    \/ Redo

SpecEdit == Init /\ [][NextEdit]_vars

\* C28 -- No-op edit: editing the current line of a non-empty buffer to a
\* text equal to its old text pushes nothing onto the undo stack, keeps the
\* redo stack intact and leaves the line sequence and the dirty flag
\* unchanged.
C28_NoOpEdit ==
    [][\A typed \in TypedTexts :
          (/\ Len(lines) > 0
           /\ typed = GetLine(lines, current_line)
           /\ EditTyped(typed))
            => UNCHANGED <<lines, dirty, undo_stack, redo_stack>>]_vars

(***************************************************************************)
(* SelectionManager called directly (selection_manager.py): any sequence   *)
(* of start_selection, end_selection and clear_selection calls.            *)
(***************************************************************************)
SelectionLines == 0..(MaxLines - 1)

SelectionCancelled(pre_select_result) ==
    Truthy(pre_select_result) /\ HasKey(pre_select_result, "cancel")

SelectionFrame ==
    /\ UNCHANGED <<lines, dirty, current_line, display_start, undo_stack,
                   redo_stack, pc, seq_base, seq_ops, seq_undos>>
    /\ UNCHANGED hook_vars
    /\ UNCHANGED store_vars

\* SelectionManager.start_selection
SelStartSelection(line_number, pre_select_result) ==
    /\ IF SelectionCancelled(pre_select_result)
       THEN /\ UNCHANGED <<selection_start, in_selection_mode>>
            /\ events' = <<"pre_selection">>
       ELSE /\ selection_start' = line_number
            /\ in_selection_mode' = TRUE
            /\ events' = <<"pre_selection", "post_selection">>
    /\ UNCHANGED selection_end
    /\ last' = Last("SelectionManager.start_selection", pre_select_result,
                    "None")
    /\ SelectionFrame

\* SelectionManager.end_selection
SelEndSelection(line_number, pre_select_result) ==
    /\ IF ~in_selection_mode
       THEN /\ UNCHANGED <<selection_start, selection_end>>
            /\ events' = <<>>
       ELSE IF SelectionCancelled(pre_select_result)
       THEN /\ UNCHANGED <<selection_start, selection_end>>
            /\ events' = <<"pre_selection">>
       ELSE /\ selection_start' = Min(selection_start, line_number)
            /\ selection_end' = Max(selection_start, line_number)
            /\ events' = <<"pre_selection", "post_selection">>
    /\ UNCHANGED in_selection_mode
    /\ last' = Last("SelectionManager.end_selection", pre_select_result,
                    "None")
    /\ SelectionFrame

\* SelectionManager.clear_selection
SelClearSelection ==
    /\ selection_start' = NoLine
    /\ selection_end' = NoLine
    /\ in_selection_mode' = FALSE
    /\ events' = <<>>
    /\ last' = Last("SelectionManager.clear_selection", PyNone, "None")
    /\ SelectionFrame

NextSelection ==
    \/ \E line_number \in SelectionLines, pre \in PreResults :
          SelStartSelection(line_number, pre)
    \/ \E line_number \in SelectionLines, pre \in PreResults :
          SelEndSelection(line_number, pre)
    \/ SelClearSelection

SpecSelection == Init /\ [][NextSelection]_vars

\* C29 -- Selection markers: after any sequence of start_selection,
\* end_selection and clear_selection calls, whenever both selection markers
\* are set, selection_start <= selection_end; an end_selection issued while
\* no selection has been started changes nothing.
C29_SelectionOrdered ==
    [][/\ (selection_start' # NoLine /\ selection_end' # NoLine)
            => selection_start' <= selection_end'
       /\ \A line_number \in SelectionLines, pre \in PreResults :
             (~in_selection_mode /\ SelEndSelection(line_number, pre))
               => UNCHANGED <<selection_start, selection_end,
                              in_selection_mode>>]_vars

\* C30 -- Select key: the select key toggles the selecting state on and
\* off.  A press outside selection mode starts a selection at the cursor and
\* enters selection mode; the next press finalizes the selection (both
\* markers set, in order) and leaves selection mode, so that a further press
\* starts a fresh selection at the cursor.
C30_SelectKeyToggles ==
    [][(/\ last'.op \in {"start_selection", "end_selection"}
        /\ ~SelectionCancelled(last'.pre)
        /\ SelectKey(last'.pre))
         => IF ~in_selection_mode
            THEN /\ selection_start' = current_line
                 /\ in_selection_mode'
            ELSE /\ selection_end' # NoLine
                 /\ selection_start' <= selection_end'
                 /\ ~in_selection_mode']_vars

(***************************************************************************)
(* Copying the selection (text_buffer.py, copy_selection;                  *)
(* selection_manager.py, get_selected_text).  The text handed to           *)
(* PasteBuffer.copy_to_clipboard is logged after its "copy_to_clipboard"   *)
(* event.                                                                  *)
(***************************************************************************)
\* the list slice ls[start:stop] for 0 <= start
PySlice(ls, start, stop) ==
    LET last_index == Min(stop, Len(ls))
    IN  IF start >= last_index THEN <<>>
        ELSE SubSeq(ls, start + 1, last_index)

\* '\n'.join(ls)
RECURSIVE JoinLines(_)
JoinLines(ls) ==
    IF ls = <<>> THEN ""
    ELSE IF Len(ls) = 1 THEN ls[1]
    ELSE ls[1] \o "\n" \o JoinLines(Tail(ls))

\* the mutated slice, without the line at end
GetSelectedTextExclusive(ls, process_result) ==
    LET start == Min(selection_start, selection_end)
        end == Max(selection_start, selection_end)
        selected_text == JoinLines(PySlice(ls, start, end))
    IN  IF Truthy(process_result) /\ HasKey(process_result, "text")
        THEN process_result.text
        ELSE selected_text

\* SelectionManager.get_selected_text with a selection present;
\* process_result is what the process_selection dispatch returned
GetSelectedText(ls, process_result) ==
    LET start == Min(selection_start, selection_end)
        end == Max(selection_start, selection_end)
        selected_text == JoinLines(PySlice(ls, start, end + 1))
    IN  IF Truthy(process_result) /\ HasKey(process_result, "text")
        THEN process_result.text
        ELSE selected_text

\* TextBuffer.copy_selection; copied is what PasteBuffer.copy_to_clipboard
\* returns
CopySelection(process_result, copied) ==
    /\ Turn
    /\ IF ~HasSelection \/ lines = <<>>
       THEN /\ UNCHANGED <<selection_start, selection_end, in_selection_mode>>
            /\ SetNav(CurNav)
            /\ events' = <<>>
            /\ last' = Last("copy_selection", process_result, "False")
       ELSE /\ events' = <<"process_selection", "copy_to_clipboard",
                           GetSelectedText(lines, process_result)>>
            /\ IF copied
               THEN /\ selection_start' = NoLine
                    /\ selection_end' = NoLine
                    /\ in_selection_mode' = FALSE
                    /\ SetNav(SetCurrentLine(CurNav, current_line, Len(lines)))
                    /\ last' = Last("copy_selection", process_result, "True")
               ELSE /\ UNCHANGED <<selection_start, selection_end,
                                   in_selection_mode>>
                    /\ SetNav(CurNav)
                    /\ last' = Last("copy_selection", process_result, "False")
    /\ UNCHANGED <<lines, dirty, undo_stack, redo_stack>>
    /\ TrackNone

NextCopy ==
    \/ DisplayStep
    \/ \E op \in {"navigate_up", "navigate_down"} : Navigate(op, 0, <<>>)
    \/ InsertLine(PyNone)
    \/ \E new_text \in Texts : EditCurrentLine(new_text)
    \/ SelectKey(PyNone)
    \/ \E process_result \in PreResults, copied \in BOOLEAN :
          CopySelection(process_result, copied)
    \/ Undo

SpecCopy == Init /\ [][NextCopy]_vars

\* the lines start..end of the buffer that exist, joined by newlines
RECURSIVE RangeText(_, _, _)
RangeText(ls, i, end) ==
    IF i > end \/ i >= Len(ls) THEN ""
    ELSE GetLine(ls, i)
         \o (IF i < end /\ i + 1 < Len(ls) THEN "\n" ELSE "")
         \o RangeText(ls, i + 1, end)

\* C31 -- Copy of the selection: copy_selection hands the clipboard exactly
\* the buffer lines start..end (inclusive) joined by newlines, or the text a
\* process_selection hook put in their place; it never changes the line
\* sequence, the dirty flag or the history stacks; and it clears the
\* selection exactly when the copy succeeds.
C31_CopySelection ==
    [][last'.op = "copy_selection"
         => \A copied \in BOOLEAN :
               CopySelection(last'.pre, copied)
                 => /\ UNCHANGED <<lines, dirty, undo_stack, redo_stack>>
                    /\ (HasSelection /\ lines # <<>>)
                         => /\ Len(events') = 3
                            /\ events'[2] = "copy_to_clipboard"
                            /\ events'[3] =
                                 IF HasKey(last'.pre, "text")
                                 THEN last'.pre.text
                                 ELSE RangeText(lines, selection_start,
                                                selection_end)
                    /\ last'.ret = "True"
                         => /\ selection_start' = NoLine
                            /\ selection_end' = NoLine
                            /\ ~in_selection_mode'
                    /\ last'.ret = "False"
                         => UNCHANGED <<selection_start, selection_end,
                                        in_selection_mode>>
                    /\ last'.ret = (IF HasSelection /\ lines # <<>> /\ copied
                                    THEN "True" ELSE "False")]_vars

\* a two-line selection was copied and the selection cleared
C31_Witness ==
    /\ last.op = "copy_selection"
    /\ last.ret = "True"
    /\ events = <<"process_selection", "copy_to_clipboard", "a\na">>
    /\ selection_start = NoLine
    /\ selection_end = NoLine

(***************************************************************************)
(* Further properties of the paste buffer.                                 *)
(***************************************************************************)
\* C32 -- paste_into at an index: for every insertion index k with
\* 0 <= k <= line count, paste_into(target, at_line = k) with a non-empty
\* paste buffer returns the number of lines in the paste buffer, marks the
\* target dirty and makes the buffer equal to old[0..k), then the pasted
\* lines, then old[k..]; the paste is recorded as a single command, so that
\* one undo removes the whole pasted block.
C32_PasteIntoAtIndex ==
    [][(last'.op = "paste_into" /\ events'[1].pasted > 0)
         => \A k \in 0..Len(lines), adjust_indent \in BOOLEAN,
               clipboard \in PasteTexts \cup {<<>>} :
               PasteInto(k, adjust_indent, clipboard)
                 => /\ last'.ret = ToString(Len(paste_buffer'.buffer))
                    /\ dirty'
                    /\ Len(undo_stack') = Len(undo_stack) + 1
                    /\ LET pasted == undo_stack'[Len(undo_stack')].lines
                       IN  /\ Len(pasted) = Len(paste_buffer'.buffer)
                           /\ lines' = SubSeq(lines, 1, k) \o pasted
                                         \o SubSeq(lines, k + 1, Len(lines))
                    /\ CmdUndo(undo_stack'[Len(undo_stack')], lines') = lines]_vars

\* C33 -- Overwrite paste: the editor's overwrite paste never changes the
\* buffer's line count; it replaces existing lines from the cursor line on,
\* drops clipboard lines that would fall past the buffer end, and is
\* recorded as a single command whose undo restores every overwritten line.
C33_OverwriteKeepsLineCount ==
    [][last'.op = "paste_line"
         => \A clip \in SingleClips \cup MultiClips, pre_paste \in PreResults :
               PasteLine("overwrite", clip, pre_paste, PyNone)
                 => /\ Len(lines') = Len(lines)
                    /\ lines' # lines
                         => /\ Len(undo_stack') = Min(Len(undo_stack) + 1,
                                                      MaxHistory)
                            /\ CmdUndo(undo_stack'[Len(undo_stack')], lines')
                                 = lines]_vars

\* C36 -- One-line overwrite paste: the overwrite-paste command with a
\* one-line clipboard (and no hook taking part) replaces the current line's
\* text with the clipboard line and records a LineEditCommand, so that one
\* undo restores the old text.
C36_SingleLineOverwrite ==
    [][last'.op = "paste_line"
         => \A clip \in SingleClips :
               (/\ Len(lines) > 0
                /\ clip[1] # GetLine(lines, current_line)
                /\ PasteLine("overwrite", clip, PyNone, PyNone))
                 => /\ lines' = ListSet(lines, current_line, clip[1])
                    /\ undo_stack' # <<>>
                    /\ undo_stack'[Len(undo_stack')] =
                         LineEditCommand(current_line,
                                         GetLine(lines, current_line), clip[1])
                    /\ CmdUndo(undo_stack'[Len(undo_stack')], lines')
                         = lines]_vars

\* the indices of the non-blank lines of the paste buffer
NonBlank(buffer) == {i \in 1..Len(buffer) : HasContent(buffer[i])}

\* C34 -- Common prefix: after every set_text, common_prefix is the longest
\* white-space string that is a prefix of the leading white space of every
\* non-blank line of the paste buffer; blank lines in the block do not
\* shorten it.
C34_CommonPrefix ==
    LET buffer == paste_buffer.buffer
        prefix == paste_buffer.common_prefix
        indent(i) == LeadingWhitespace(buffer[i])
    IN  NonBlank(buffer) # {}
          => /\ \A i \in NonBlank(buffer) : StartsWith(indent(i), prefix)
             /\ ~ \E c \in Whitespace :
                    \A i \in NonBlank(buffer) :
                       StartsWith(indent(i), Append(prefix, c))

(***************************************************************************)
(* Reloading the enabled state (hook_ui.py, reload_all_hooks and           *)
(* refresh_hook_list; main.py): _load_disabled_hooks run again on a        *)
(* HookManager in use.                                                     *)
(***************************************************************************)
\* HookUI.reload_all_hooks
ReloadAllHooks ==
    /\ RegistryQuiet
    /\ LET fs_disabled == FsDisabled(hook_files)
           config_disabled == ConfigDisabled(config.hooks)
       IN  IF config.present
           THEN /\ disabled_hooks' = config_disabled
                /\ hook_files' =
                      SyncDisable(SyncEnable(hook_files,
                                             fs_disabled \ config_disabled),
                                  config_disabled \ fs_disabled)
           ELSE /\ disabled_hooks' = fs_disabled
                /\ UNCHANGED hook_files
    /\ UNCHANGED config
    /\ RegistryStep("reload_all_hooks", <<>>)

NextReload ==
    \/ LoadDisabledHooks
    \/ ReloadAllHooks
    \/ \E hook_id \in RegistryIds : EnableHook(hook_id)
    \/ \E hook_id \in RegistryIds : DisableHook(hook_id)

SpecReload == InitRegistry /\ [][NextReload]_vars

\* the enabled state has just been loaded or reloaded
JustLoaded ==
    /\ dispatch.pc # "unloaded"
    /\ events = <<>> \/ events[1].op = "reload_all_hooks"

\* the id of the hook a file holds: that of its name without the
\* underscore prefix
HookIdOfFile(f) == GetHookId(RelPath(LStripUnderscore(f)))

\* C35 -- Views reconciled on load: after every load or reload of the
\* enabled state with a configuration store present, every hook file of a
\* supported extension carries the leading underscore if and only if the
\* configuration reports its hook disabled (is_hook_enabled(id) is false).
C35_ViewsReconciled ==
    (JustLoaded /\ config.present)
      => \A f \in {g \in hook_files : IsHookFile(g)} :
            (f[1] = "_") <=> ~IsHookEnabled(HookIdOfFile(f))

\* C37 -- Delete of the current line: delete_current_line returns True and
\* pushes exactly one DeleteLineCommand whenever it removed a line from the
\* buffer, whatever that line's text (the empty string included); it returns
\* False only when the buffer is unchanged.
C37_DeleteReportsRemoval ==
    [][last'.op = "delete_current_line"
         => /\ lines' # lines
                 => /\ last'.ret = "True"
                    /\ undo_stack' # <<>>
                    /\ undo_stack'[Len(undo_stack')] =
                         DeleteLineCommand(current_line,
                                           GetLine(lines, current_line))
            /\ last'.ret = "False" => lines' = lines]_vars

\* C38 -- Dirty tracks unsaved changes: in every reachable state, if the
\* line sequence differs from the one the buffer held at the last successful
\* load or save, dirty is true.  Stated on the steps: only a successful
\* load_file or save may clear the dirty flag, and only they may change the
\* line sequence and leave the flag clear.
C38_DirtyTracksChanges ==
    [][LET persisted == /\ last'.op \in {"load_file", "save"}
                        /\ last'.ret = "True"
       IN  /\ (lines' # lines /\ ~dirty') => persisted
           /\ (dirty /\ ~dirty') => persisted]_vars

(***************************************************************************)
(* Saving and loading the same file without hooks (buffer_manager.py, save *)
(* and load_file).  Lines and the file text are sequences of characters;   *)
(* `events` keeps the accesses to the file since it was last written, the  *)
(* write with the text it wrote.                                           *)
(***************************************************************************)
RoundTripTexts == {<<>>, <<"a">>}
RoundTripBuffers == UNION {[1..k -> RoundTripTexts] : k \in 0..MaxLines}

\* "\n".join(lines_to_save)
RECURSIVE JoinText(_)
JoinText(ls) ==
    IF ls = <<>> THEN <<>>
    ELSE IF Len(ls) = 1 THEN ls[1]
    ELSE ls[1] \o <<"\n">> \o JoinText(Tail(ls))

\* `for line in f`: the text cut after each "\n"; a text that does not end
\* in "\n" gives a last line without one, the empty text gives no line
RECURSIVE IterLines(_)
IterLines(text) ==
    IF text = <<>> THEN <<>>
    ELSE IF \A i \in 1..Len(text) : text[i] # "\n" THEN <<text>>
    ELSE LET i == CHOOSE k \in 1..Len(text) :
                      text[k] = "\n" /\ \A j \in 1..(k - 1) : text[j] # "\n"
         IN  <<SubSeq(text, 1, i)>> \o IterLines(SubSeq(text, i + 1, Len(text)))

\* line.rstrip("\n")
RECURSIVE RStripNewlines(_)
RStripNewlines(line) ==
    IF line # <<>> /\ line[Len(line)] = "\n"
    THEN RStripNewlines(SubSeq(line, 1, Len(line) - 1))
    ELSE line

\* [line.rstrip("\n") for line in f]
ReadLines(text) ==
    [i \in 1..Len(IterLines(text)) |-> RStripNewlines(IterLines(text)[i])]

FileWrite(text) == [op |-> "write", text |-> text]
FileRead == [op |-> "read", text |-> <<>>]

RoundTripFrame ==
    /\ UNCHANGED <<current_line, display_start, undo_stack, redo_stack,
                   selection_start, selection_end, in_selection_mode, pc,
                   seq_base, seq_ops, seq_undos>>
    /\ UNCHANGED hook_vars
    /\ UNCHANGED store_vars

\* BufferManager.save with a file name, no hooks and a write that succeeds
RoundTripSave ==
    /\ events' = <<FileWrite(JoinText(lines))>>
    /\ dirty' = FALSE
    /\ last' = Last("save", PyNone, "True")
    /\ UNCHANGED lines
    /\ RoundTripFrame

\* BufferManager.load_file of the file save wrote, no hooks
RoundTripLoad ==
    /\ events # <<>>
    /\ lines' = ReadLines(events[1].text)
    /\ dirty' = FALSE
    /\ events' = <<events[1], FileRead>>
    /\ last' = Last("load_file", PyNone, "True")
    /\ RoundTripFrame

\* BufferManager.insert_line / delete_line without hooks
RoundTripInsert(index, text) ==
    /\ Len(lines) < MaxLines
    /\ lines' = ListInsert(lines, index, text)
    /\ dirty' = TRUE
    /\ last' = Last("BufferManager.insert_line", PyNone, "None")
    /\ UNCHANGED events
    /\ RoundTripFrame

RoundTripDelete(index) ==
    /\ index < Len(lines)
    /\ lines' = ListDelete(lines, index)
    /\ dirty' = TRUE
    /\ last' = Last("BufferManager.delete_line", PyNone, "None")
    /\ UNCHANGED events
    /\ RoundTripFrame

InitRoundTrip ==
    /\ lines \in RoundTripBuffers
    /\ dirty = TRUE
    /\ EditorIdle
    /\ HooksIdle
    /\ config = NoConfig
    /\ filename = "f.txt"
    /\ paste_buffer = EmptyPasteBuffer

NextRoundTrip ==
    \/ RoundTripSave
    \/ RoundTripLoad
    \/ \E index \in 0..MaxLines, text \in RoundTripTexts :
          RoundTripInsert(index, text)
    \/ \E index \in 0..MaxLines : RoundTripDelete(index)

SpecRoundTrip == InitRoundTrip /\ [][NextRoundTrip]_vars

\* C39 -- Save/load round trip: for every line sequence held in the buffer
\* (the empty sequence, a single empty line and sequences ending in empty
\* lines included), with no rewriting hooks, save followed by load_file of
\* the same file yields the same line sequence.
C39_SaveLoadRoundTrip ==
    [][(last.op = "save" /\ last'.op = "load_file") => lines' = lines]_vars

====
